---- MODULE Spec2Model ----
(***************************************************************************)
(* Adwapach: the event bus (mvvm/event.rs), the application model          *)
(* (application/model.rs) and the Model -> ViewModel -> View pipeline      *)
(* (application/viewmodel.rs, application/view.rs).                        *)
(*                                                                         *)
(* List positions are 0-based as in the Rust code; the element at code     *)
(* index i of a sequence s is s[i + 1].                                    *)
(***************************************************************************)
EXTENDS Integers, Sequences, FiniteSets, TLC

\* ------------------------------------------------------------------ bounds
\* Subscribers ever registered on one EventManager.
MaxSubs == 3
\* Wallpapers ever created (Wallpaper::new calls) in one run.
MaxAdds == 3

\* ------------------------------------------------------------------ values
\* ApplicationEvent (application/model.rs).
ApplicationEvent == {"MonitorsUpdated", "WallpapersUpdated"}

VARIABLES
    \* --- EventManager<M>(Vec<WeakSubscription<M>>)
    registry,     \* the Vec of weak entries, by subscriber id, in push order
    handles,      \* ids whose Subscription handle (the only Arc) is alive
    nextSub,      \* id of the next subscriber; ids number the registrations
    dropped,      \* history: ids whose Subscription handle was dropped
    compacted,    \* history: some notify has compacted the registry
    lastCalls,    \* history: the callback invocations of the latest notify
    lastNotify,   \* history: what the latest notify saw when it was called
    \* --- Application (application/model.rs); its subscribers are the bus above
    monitors,     \* Vec<Monitor>
    wallpapers,   \* Vec<Wallpaper>
    nextId,       \* stands for Uuid::new_v4(): the next fresh wallpaper id
    crashed,      \* a panic ended the run
    lastOp,       \* history: the latest Application operation and the list before it
    prevOp,       \* history: the operation before lastOp, when it was a MoveUp
    \* --- ApplicationViewModel (application/viewmodel.rs)
    vmMonitors,   \* monitors: Vec<MonitorCache>
    vmWallpapers, \* wallpapers: Vec<WallpaperCache>
    \* --- ApplicationView (application/view.rs)
    selected,     \* selected_monitor_index: Option<usize>, <<>> or <<i>>
    cache,        \* wallpaper_cache: HashMap<Uuid, (TextureHandle, Vec2<u32>)>
    \* --- the blocking pool (tokio spawn_blocking)
    tasks,        \* spawned tasks that have not started, counted by function
    passes,       \* update_texture_cache runs between their two lock sections
    used,         \* calls made so far, against the bounds
    lastFinish,   \* history: what the latest update_texture_cache that ran
                  \* undisturbed left when it finished
    lastSet,      \* history: the latest set_monitors call: was its list empty,
                  \* was a monitor selected when it was made
    \* --- the three parking_lot mutexes and the threads that take them
    locks,        \* holder of Arc<Mutex<..>> of the view, the viewmodel, the model
    threads,      \* where the UI thread and each action task stand, with the
                  \* arguments of the call
    queue,        \* action tasks the frame has spawned and that have not started
    dispatched,   \* action tasks spawned so far, against the bound
    \* --- comobj.rs
    com           \* per thread: COM_LIBRARY_COUNT, the ComLibrary values alive,
                  \* the CoInitializeEx calls not yet undone, the calls made,
                  \* and as history what the latest new or drop did

busVars == <<registry, handles, nextSub, dropped, compacted, lastCalls, lastNotify>>

modelVars == <<monitors, wallpapers, nextId, crashed, lastOp, prevOp>>

pipeVars == <<vmMonitors, vmWallpapers, selected, cache, tasks, passes, used,
              lastFinish, lastSet>>

lockVars == <<locks, threads, queue, dispatched>>

vars == <<busVars, modelVars, pipeVars, lockVars, com>>

\* ------------------------------------------------- mvvm/event.rs, pure part

\* Weak::upgrade(): Some iff the owning Subscription is still alive.
Upgrade_AlwaysSome(s, hs) == TRUE

Upgrade(s, hs) == s \in hs

\* WeakSubscription::notify: calls the closure iff the upgrade succeeds and
\* returns whether it did.
WeakSubscription_notify(s, hs, msg) ==
    IF Upgrade(s, hs)
    THEN [ret |-> TRUE, calls |-> <<[sub |-> s, msg |-> msg]>>]
    ELSE [ret |-> FALSE, calls |-> <<>>]

\* The for loop of EventManager::notify from entry i on: valid_all and the
\* invocations made, in the order they are made.
RECURSIVE NotifyLoop(_, _, _, _)
NotifyLoop(reg, hs, msg, i) ==
    IF i > Len(reg)
    THEN [valid_all |-> TRUE, calls |-> <<>>]
    ELSE LET r    == WeakSubscription_notify(reg[i], hs, msg)
             rest == NotifyLoop(reg, hs, msg, i + 1)
         IN  [valid_all |-> r.ret /\ rest.valid_all,
              calls     |-> r.calls \o rest.calls]

RECURSIVE Reverse(_)
Reverse(s) == IF s = <<>> THEN <<>> ELSE Append(Reverse(Tail(s)), Head(s))

\* A compaction that does not keep the order of the survivors.
Retain_Reversed(reg, hs) == Reverse(SelectSeq(reg, LAMBDA s : Upgrade(s, hs)))

\* A compaction that cuts the registry at its first expired entry.
Retain_Truncate(reg, hs) ==
    IF \A i \in 1..Len(reg) : Upgrade(reg[i], hs) THEN reg
    ELSE SubSeq(reg, 1,
             (CHOOSE i \in 1..Len(reg) :
                 /\ ~Upgrade(reg[i], hs)
                 /\ \A j \in 1..(i - 1) : Upgrade(reg[j], hs)) - 1)

\* Vec::retain(|s| s.0.upgrade().is_some())
Retain(reg, hs) == SelectSeq(reg, LAMBDA s : Upgrade(s, hs))

\* EventManager::notify: the registry it leaves and the invocations it makes.
EventManager_notify(reg, hs, msg) ==
    LET l == NotifyLoop(reg, hs, msg, 1)
    IN  [registry  |-> IF ~l.valid_all THEN Retain(reg, hs) ELSE reg,
         calls     |-> l.calls,
         compacted |-> ~l.valid_all]

\* EventManager::subscribe: the weak entry is pushed at the end.
EventManager_subscribe(reg, s) == Append(reg, s)

\* ------------------------------------------------ mvvm/event.rs, operations

NoOp == [kind |-> "none", index |-> 0, fitting |-> "none", before |-> <<>>,
         published |-> <<>>, result |-> "none"]

NoPrev == [kind |-> "none", index |-> 0, before |-> <<>>]

TaskKinds == {"vm_update_monitors", "vm_update_wallpapers",
              "view_update_monitors", "view_update_texture_cache"}

NoTasks == [k \in TaskKinds |-> 0]

NoFinish == [done |-> FALSE, alone |-> FALSE, keys |-> {}, listIds |-> {},
             modelIds |-> {}, synced |-> FALSE, loaded |-> {}]

NoSet == [done |-> FALSE, empty |-> FALSE, selected |-> FALSE]

\* Option<usize>
None == <<>>

Some(i) == <<i>>

\* ApplicationViewModel::new and ApplicationView::new: empty projections, no
\* selection, an empty thumbnail cache; nothing spawned yet.
\* The mutexes of ApplicationView, ApplicationViewModel and Application, and
\* the mutex the EventManager of model/mod.rs keeps its Vec in.
Mutexes == {"view", "viewmodel", "model", "subscriptions"}

\* The UI thread, load_monitor_info, and the tasks a frame spawns.
ActionKinds == {"add_image", "perform", "set_wallpaper"}

Threads == {"ui", "monitor_info"} \cup ActionKinds

Idle == [at |-> "idle", args |-> <<>>]

\* The threads that make ComLibrary values; COM_LIBRARY_COUNT is thread_local.
ComThreads == {"t1", "t2"}

\* Calls of ComLibrary::new one thread makes.
MaxNews == 3

NoComCall == [op |-> "none", before |-> 0, called |-> FALSE]

\* A thread that has made no ComLibrary: static COM_LIBRARY_COUNT:
\* AtomicUsize = AtomicUsize::new(0), and COM not initialized on it.
NoCom ==
    [t \in ComThreads |->
        [count |-> 0, live |-> 0, initialized |-> 0, news |-> 0, last |-> NoComCall]]

\* No lock is held, no thread is inside a handler, nothing is spawned.
InitLocks ==
    /\ locks = [x \in Mutexes |-> "free"]
    /\ threads = [t \in Threads |-> Idle]
    /\ queue = [k \in ActionKinds |-> <<>>]
    /\ dispatched = 0
    /\ com = NoCom

InitPipeline ==
    /\ vmMonitors = <<>>
    /\ vmWallpapers = <<>>
    /\ selected = None
    /\ cache = {}
    /\ tasks = NoTasks
    /\ passes = <<>>
    /\ used = [sets |-> 0, updates |-> 0]
    /\ lastFinish = NoFinish
    /\ lastSet = NoSet
    /\ InitLocks

NoNotify == [done |-> FALSE, msg |-> "none", dropped |-> {}, live |-> {},
             before |-> <<>>, compactedBefore |-> FALSE]

\* EventManager::new()
InitEventManager ==
    /\ registry = <<>>
    /\ handles = {}
    /\ nextSub = 1
    /\ dropped = {}
    /\ compacted = FALSE
    /\ lastCalls = <<>>
    /\ lastNotify = NoNotify

\* A bus on its own: the Application fields stay as Application::new() made them.
InitBus ==
    /\ InitEventManager
    /\ monitors = <<>>
    /\ wallpapers = <<>>
    /\ nextId = 1
    /\ crashed = FALSE
    /\ lastOp = NoOp
    /\ prevOp = NoPrev
    /\ InitPipeline

\* subscribe(callback): the caller receives the owning handle.
subscribe ==
    /\ nextSub <= MaxSubs
    /\ registry' = EventManager_subscribe(registry, nextSub)
    /\ handles' = handles \cup {nextSub}
    /\ nextSub' = nextSub + 1
    /\ UNCHANGED <<dropped, compacted, lastCalls, lastNotify>>
    /\ UNCHANGED <<modelVars, pipeVars, lockVars, com>>

\* The caller drops the Subscription handle of s; the registry is not told.
drop_subscription(s) ==
    /\ s \in handles
    /\ handles' = handles \ {s}
    /\ dropped' = dropped \cup {s}
    /\ UNCHANGED <<registry, nextSub, compacted, lastCalls, lastNotify>>
    /\ UNCHANGED <<modelVars, pipeVars, lockVars, com>>

\* The bus part of every notify(message) call.
Publish(msg) ==
    LET r == EventManager_notify(registry, handles, msg)
    IN  /\ registry' = r.registry
        /\ lastCalls' = r.calls
        /\ compacted' = (compacted \/ r.compacted)
        /\ lastNotify' = [done |-> TRUE, msg |-> msg, dropped |-> dropped,
                          live |-> handles, before |-> registry,
                          compactedBefore |-> compacted]
        /\ UNCHANGED <<handles, nextSub, dropped>>

\* notify(message) called on the bus.
notify(msg) == Publish(msg) /\ UNCHANGED <<modelVars, pipeVars, lockVars, com>>

NextBus ==
    \/ subscribe
    \/ \E s \in handles : drop_subscription(s)
    \/ \E msg \in ApplicationEvent : notify(msg)

SpecBus == InitBus /\ [][NextBus]_vars

\* --------------------------------------------- application/mod.rs, values

\* enum Fitting
Fitting == {"Center", "Tile", "Stretch", "Contain", "Cover"}

\* The fitting action_add_image gives a new wallpaper.
DefaultFitting == "Cover"

\* Fittings the model tries with SetFitting.
SetFittingInputs == {"Tile"}

\* File paths the file picker may return; "bad.png" is a file that does not decode.
Paths == {"a.png", "bad.png"}

\* A constructor that gives every wallpaper the nil uuid.
Wallpaper_new_NilUuid(id, filename, fitting) ==
    [uuid |-> 0, filename |-> filename, fitting |-> fitting]

\* Wallpaper::new: a fresh uuid, the given filename and fitting.
Wallpaper_new(id, filename, fitting) ==
    [uuid |-> id, filename |-> filename, fitting |-> fitting]

\* A set_fitting that builds the wallpaper anew and loses its path.
Wallpaper_set_fitting_Rebuilt(w, f) == [uuid |-> w.uuid, filename |-> "", fitting |-> f]

\* Wallpaper::set_fitting
Wallpaper_set_fitting(w, f) == [w EXCEPT !.fitting = f]

\* enum WallpaperListOperation
WallpaperListOperation ==
    {[kind |-> k, fitting |-> "none"] : k \in {"Remove", "MoveUp", "MoveDown"}}
    \cup {[kind |-> "SetFitting", fitting |-> f] : f \in Fitting}

\* Monitors as the enumeration service reports them.
Monitor1 == [id |-> "m1", position |-> <<0, 0>>, size |-> <<1920, 1080>>]

Monitor2 == [id |-> "m2", position |-> <<1920, 0>>, size |-> <<1280, 1024>>]

\* Monitor lists the model tries with set_monitors.
MonitorLists == {<<>>, <<Monitor1>>, <<Monitor1, Monitor2>>}

\* ------------------------------------------- application/model.rs, pure part

Ids(ws) == {ws[k].uuid : k \in 1..Len(ws)}

\* A removal that fills the hole with the last element.
Vec_swap_remove(ws, index) ==
    IF index + 1 = Len(ws)
    THEN SubSeq(ws, 1, index)
    ELSE [k \in 1..(Len(ws) - 1) |-> IF k = index + 1 THEN ws[Len(ws)] ELSE ws[k]]

\* Vec::remove(index), index < len: the later elements shift down by one.
Vec_remove(ws, index) == SubSeq(ws, 1, index) \o SubSeq(ws, index + 2, Len(ws))

\* A swap written without a temporary: position a is overwritten first.
Vec_swap_Overwrite(ws, a, b) ==
    [k \in 1..Len(ws) |-> IF k = a + 1 \/ k = b + 1 THEN ws[b + 1] ELSE ws[k]]

\* <[T]>::swap(a, b), a and b < len.
Vec_swap(ws, a, b) ==
    [k \in 1..Len(ws) |->
        IF k = a + 1 THEN ws[b + 1] ELSE IF k = b + 1 THEN ws[a + 1] ELSE ws[k]]

MoveUpGuard_None(ws, index) == TRUE

\* WallpaperListOperation::MoveUp if index > 0
MoveUpGuard(ws, index) == index > 0

MoveDownGuard_Inclusive(ws, index) == index < Len(ws)

\* WallpaperListOperation::MoveDown if index + 1 < self.wallpapers.len()
MoveDownGuard(ws, index) == index + 1 < Len(ws)

\* The match of update_wallpaper. Indexing, swap and remove panic on a
\* position that is not in the Vec; index - 1 panics on usize underflow.
ApplyOperation(ws, index, op) ==
    LET ok(l)  == [panic |-> FALSE, list |-> l]
        panic  == [panic |-> TRUE, list |-> ws]
    IN  CASE op.kind = "Remove" ->
                IF index < Len(ws) THEN ok(Vec_remove(ws, index)) ELSE panic
          [] op.kind = "MoveUp" /\ MoveUpGuard(ws, index) ->
                IF index >= 1 /\ index < Len(ws)
                THEN ok(Vec_swap(ws, index, index - 1)) ELSE panic
          [] op.kind = "MoveDown" /\ MoveDownGuard(ws, index) ->
                IF index + 1 < Len(ws)
                THEN ok(Vec_swap(ws, index, index + 1)) ELSE panic
          [] op.kind = "SetFitting" ->
                IF index < Len(ws)
                THEN ok([ws EXCEPT ![index + 1] =
                            Wallpaper_set_fitting(ws[index + 1], op.fitting)])
                ELSE panic
          [] OTHER -> ok(ws)

\* An update_wallpaper that notifies only when the list changed.
Application_update_wallpaper_IfChanged(ws, index, op) ==
    LET r == ApplyOperation(ws, index, op)
    IN  IF r.panic
        THEN [panic |-> TRUE, wallpapers |-> ws, published |-> <<>>]
        ELSE [panic |-> FALSE, wallpapers |-> r.list,
              published |-> IF r.list = ws THEN <<>>
                            ELSE <<[msg |-> "WallpapersUpdated", seen |-> r.list]>>]

\* Application::update_wallpaper: the list it leaves and the notify calls it
\* makes, each with the list as it is when the call is made.
Application_update_wallpaper(ws, index, op) ==
    LET r == ApplyOperation(ws, index, op)
    IN  IF r.panic
        THEN [panic |-> TRUE, wallpapers |-> ws, published |-> <<>>]
        ELSE [panic |-> FALSE, wallpapers |-> r.list,
              published |-> <<[msg |-> "WallpapersUpdated", seen |-> r.list]>>]

\* A push to the front of the list.
Application_add_wallpaper_Front(ws, w) ==
    [wallpapers |-> <<w>> \o ws,
     published  |-> <<[msg |-> "WallpapersUpdated", seen |-> <<w>> \o ws]>>]

\* Application::add_wallpaper
Application_add_wallpaper(ws, w) ==
    [wallpapers |-> Append(ws, w),
     published  |-> <<[msg |-> "WallpapersUpdated", seen |-> Append(ws, w)]>>]

\* A set_monitors that keeps the monitors it had.
Application_set_monitors_Extend(ms, new) ==
    [monitors  |-> ms \o new,
     published |-> <<[msg |-> "MonitorsUpdated", seen |-> ms \o new]>>]

\* Application::set_monitors
Application_set_monitors(ms, new) ==
    [monitors  |-> new,
     published |-> <<[msg |-> "MonitorsUpdated", seen |-> new]>>]

\* What WallpaperInterface does when asked: it sets the wallpaper, or its
\* construction fails, or the setting fails.
ApplyOutcomes == {"Ok", "NewFails", "SetFails"}

\* An apply that tells the subscribers.
Application_apply_wallpaper_for_monitor_Notifies(ms, ws, monitor_index, wallpaper_index, outcome) ==
    [panic |-> FALSE, result |-> IF outcome = "Ok" THEN "Ok" ELSE "Err",
     monitors |-> ms, wallpapers |-> ws,
     published |-> <<[msg |-> "WallpapersUpdated", seen |-> ws]>>]

\* Application::apply_wallpaper_for_monitor: WallpaperInterface::new()?, then
\* set_wallpaper(monitors[monitor_index].id(), wallpapers[wallpaper_index]
\* .filename)?, whose arguments index the two lists.
Application_apply_wallpaper_for_monitor(ms, ws, monitor_index, wallpaper_index, outcome) ==
    IF outcome = "NewFails"
    THEN [panic |-> FALSE, result |-> "Err", monitors |-> ms, wallpapers |-> ws,
          published |-> <<>>]
    ELSE IF monitor_index >= Len(ms) \/ wallpaper_index >= Len(ws)
    THEN [panic |-> TRUE, result |-> "none", monitors |-> ms, wallpapers |-> ws,
          published |-> <<>>]
    ELSE [panic |-> FALSE, result |-> IF outcome = "Ok" THEN "Ok" ELSE "Err",
          monitors |-> ms, wallpapers |-> ws, published |-> <<>>]

\* self.subscribers.notify(m) for each notify call of an operation, in order.
RECURSIVE NotifyAll(_, _, _)
NotifyAll(reg, hs, published) ==
    IF published = <<>>
    THEN [registry |-> reg, calls |-> <<>>, compacted |-> FALSE]
    ELSE LET r    == EventManager_notify(reg, hs, Head(published).msg)
             rest == NotifyAll(r.registry, hs, Tail(published))
         IN  [registry  |-> rest.registry,
              calls     |-> r.calls \o rest.calls,
              compacted |-> r.compacted \/ rest.compacted]

\* ------------------------------------------ application/model.rs, operations

\* The notify calls of one Application operation, delivered to the bus.
PublishAll(published) ==
    LET r == NotifyAll(registry, handles, published)
    IN  /\ registry' = r.registry
        /\ lastCalls' = r.calls
        /\ compacted' = (compacted \/ r.compacted)
        /\ lastNotify' = IF published = <<>> THEN lastNotify
                         ELSE [done |-> TRUE,
                               msg |-> published[Len(published)].msg,
                               dropped |-> dropped, live |-> handles,
                               before |-> registry,
                               compactedBefore |-> compacted]
        /\ UNCHANGED <<handles, nextSub, dropped>>

RecordResult(kind, index, fitting, published, result) ==
    /\ lastOp' = [kind |-> kind, index |-> index, fitting |-> fitting,
                  before |-> wallpapers, published |-> published,
                  result |-> result]
    /\ prevOp' = IF lastOp.kind = "MoveUp"
                 THEN [kind |-> lastOp.kind, index |-> lastOp.index,
                       before |-> lastOp.before]
                 ELSE NoPrev

Record(kind, index, fitting, published) ==
    RecordResult(kind, index, fitting, published, "none")

\* Application::new() with the ViewModel's closure subscribed
\* (ApplicationViewModel::setup_subscribe); its handle is kept for good.
InitModel ==
    /\ registry = <<1>>
    /\ handles = {1}
    /\ nextSub = 2
    /\ dropped = {}
    /\ compacted = FALSE
    /\ lastCalls = <<>>
    /\ lastNotify = NoNotify
    /\ monitors = <<>>
    /\ wallpapers = <<>>
    /\ nextId = 1
    /\ crashed = FALSE
    /\ lastOp = NoOp
    /\ prevOp = NoPrev
    /\ InitPipeline

set_monitors(new) ==
    LET r == Application_set_monitors(monitors, new)
    IN  /\ ~crashed
        /\ monitors' = r.monitors
        /\ PublishAll(r.published)
        /\ Record("set_monitors", 0, "none", r.published)
        /\ UNCHANGED <<wallpapers, nextId, crashed>>
        /\ UNCHANGED <<pipeVars, lockVars, com>>

add_wallpaper(filename) ==
    LET r == Application_add_wallpaper(wallpapers,
                 Wallpaper_new(nextId, filename, DefaultFitting))
    IN  /\ ~crashed
        /\ nextId <= MaxAdds
        /\ wallpapers' = r.wallpapers
        /\ nextId' = nextId + 1
        /\ PublishAll(r.published)
        /\ Record("add_wallpaper", Len(wallpapers), DefaultFitting, r.published)
        /\ UNCHANGED <<monitors, crashed>>
        /\ UNCHANGED <<pipeVars, lockVars, com>>

update_wallpaper(index, op) ==
    LET r == Application_update_wallpaper(wallpapers, index, op)
    IN  /\ ~crashed
        /\ wallpapers' = r.wallpapers
        /\ crashed' = r.panic
        /\ PublishAll(r.published)
        /\ Record(op.kind, index, op.fitting, r.published)
        /\ UNCHANGED <<monitors, nextId>>
        /\ UNCHANGED <<pipeVars, lockVars, com>>

apply_wallpaper_for_monitor(monitor_index, wallpaper_index, outcome) ==
    LET r == Application_apply_wallpaper_for_monitor(monitors, wallpapers,
                 monitor_index, wallpaper_index, outcome)
    IN  /\ ~crashed
        /\ monitors' = r.monitors
        /\ wallpapers' = r.wallpapers
        /\ crashed' = r.panic
        /\ PublishAll(r.published)
        /\ RecordResult("apply_wallpaper_for_monitor", wallpaper_index, "none",
                        r.published, r.result)
        /\ UNCHANGED nextId
        /\ UNCHANGED <<pipeVars, lockVars, com>>

\* The operations the model tries: every position of the list and the first
\* position behind it.
OpInputs == {op \in WallpaperListOperation :
                op.kind = "SetFitting" => op.fitting \in SetFittingInputs}

NextModel ==
    \/ \E new \in MonitorLists : set_monitors(new)
    \/ \E f \in {"a.png"} : add_wallpaper(f)
    \/ \E index \in 0..Len(wallpapers) : \E op \in OpInputs :
          update_wallpaper(index, op)

SpecModel == InitModel /\ [][NextModel]_vars

\* The model with its lists filled and the wallpaper applied: every index of
\* the two lists and the first index behind each.
NextApply ==
    \/ \E new \in MonitorLists : set_monitors(new)
    \/ \E f \in {"a.png"} : add_wallpaper(f)
    \/ \E mi \in 0..Len(monitors) : \E wi \in 0..Len(wallpapers) :
          \E outcome \in ApplyOutcomes :
             apply_wallpaper_for_monitor(mi, wi, outcome)

SpecApply == InitModel /\ [][NextApply]_vars

\* ------------------------------------------------------- pipeline bounds
\* set_monitors calls in one run.
MaxSets == 3
\* Images the user picks in one run of the thumbnail pipeline.
MaxPicks == 2
\* Wallpaper list operations the user dispatches in one run.
MaxUpdates == 1
\* Action tasks one run of the UI spawns.
MaxDispatch == 2

\* --------------------------------- application/viewmodel.rs, pure part

\* The ViewModel's own bus (subscriber_views): the View's closure is its one
\* subscriber and its handle is kept in ApplicationView.subscription.
ViewRegistry == <<1>>

ViewHandles == {1}

\* ------------------------------------------------ f32 arithmetic
\* An f32 value is m * 2^-e, kept normalised: e = 0, or m is odd. The values
\* of the layout are far from the exponent limits of f32, so only the 24-bit
\* significand rounds (round to nearest, ties to even).
SignificandBits == 24

Pow2(n) == 2 ^ n

Abs(i) == IF i < 0 THEN 0 - i ELSE i

RECURSIVE BitLen(_)
BitLen(n) == IF n = 0 THEN 0 ELSE 1 + BitLen(n \div 2)

RECURSIVE Normalised(_, _)
Normalised(mm, ee) ==
    IF mm = 0 THEN [m |-> 0, e |-> 0]
    ELSE IF ee > 0 /\ mm % 2 = 0 THEN Normalised(mm \div 2, ee - 1)
    ELSE [m |-> mm, e |-> ee]

\* The upper bits of n after its lowest s bits are rounded away.
RoundedSignificand(n, s) ==
    LET q == n \div Pow2(s)
        r == n % Pow2(s)
        half == Pow2(s - 1)
    IN  IF r > half \/ (r = half /\ q % 2 = 1) THEN q + 1 ELSE q

\* The f32 nearest to mm * 2^-ee.
Round(mm, ee) ==
    LET n == Abs(mm)
        s == BitLen(n) - SignificandBits
        sign == IF mm < 0 THEN 0 - 1 ELSE 1
    IN  IF s <= 0 THEN Normalised(mm, ee)
        ELSE IF ee >= s
             THEN Normalised(sign * RoundedSignificand(n, s), ee - s)
             ELSE Normalised(sign * RoundedSignificand(n, s) * Pow2(s - ee), 0)

\* `as f32` and as_::<f32>() of an i32.
I32ToF32(i) == Round(i, 0)

\* The numerator of a over the common denominator 2^k, k >= a.e.
Scaled(a, k) == a.m * Pow2(k - a.e)

MaxOf(i, j) == IF i >= j THEN i ELSE j

F32Add(a, b) ==
    LET k == MaxOf(a.e, b.e) IN Round(Scaled(a, k) + Scaled(b, k), k)

F32Sub(a, b) ==
    LET k == MaxOf(a.e, b.e) IN Round(Scaled(a, k) - Scaled(b, k), k)

F32Le(a, b) ==
    LET k == MaxOf(a.e, b.e) IN Scaled(a, k) <= Scaled(b, k)

\* The smaller of the two.
F32Max_Min(a, b) == IF F32Le(a, b) THEN a ELSE b

\* f32::max
F32Max(a, b) == IF F32Le(a, b) THEN b ELSE a

\* Long division of n by d, both positive: the quotient bits q * 2^-ee so
\* far and the remainder r, until the quotient is exact or holds a rounding
\* bit behind the significand.
RECURSIVE DivBits(_, _, _, _)
DivBits(q, r, d, ee) ==
    IF r = 0 THEN Round(q, ee)
    ELSE IF q >= Pow2(SignificandBits)
         THEN Round(2 * q + 1, ee + 1)
         ELSE DivBits(2 * q + (2 * r) \div d, (2 * r) % d, d, ee + 1)

\* a / b for b > 0.
F32Div(a, b) ==
    LET n == Abs(a.m) * Pow2(b.e)
        d == b.m * Pow2(a.e)
        v == DivBits(n \div d, n % d, d, 0)
    IN  IF a.m < 0 THEN [m |-> 0 - v.m, e |-> v.e] ELSE v

F32Zero == [m |-> 0, e |-> 0]

F32One == [m |-> 1, e |-> 0]

F32Two == [m |-> 2, e |-> 0]

SetMin(S) == CHOOSE x \in S : \A y \in S : x <= y

SetMax(S) == CHOOSE x \in S : \A y \in S : x >= y

\* x_points (axis 1) and y_points (axis 2): both corners of every monitor.
CornerPoints(ms, axis) ==
    UNION {{ms[k].position[axis], ms[k].position[axis] + ms[k].size[axis]} :
              k \in 1..Len(ms)}

\* The bounding box of a non-empty monitor list and what update_monitors
\* derives from it.
WholeBox(ms) ==
    LET left_all   == I32ToF32(SetMin(CornerPoints(ms, 1)))
        right_all  == I32ToF32(SetMax(CornerPoints(ms, 1)))
        top_all    == I32ToF32(SetMin(CornerPoints(ms, 2)))
        bottom_all == I32ToF32(SetMax(CornerPoints(ms, 2)))
        whole_size == <<F32Sub(right_all, left_all), F32Sub(bottom_all, top_all)>>
        divider    == F32Max(whole_size[1], whole_size[2])
    IN  [left_all |-> left_all, right_all |-> right_all,
         top_all |-> top_all, bottom_all |-> bottom_all,
         whole_topleft |-> <<left_all, top_all>>,
         whole_size |-> whole_size,
         divider |-> divider,
         whole_offset |-> <<F32Div(F32Sub(divider, whole_size[1]), F32Two),
                            F32Div(F32Sub(divider, whole_size[2]), F32Two)>>]

\* A normalisation that does not move the bounding box to the origin.
NormalizedPosition_NoSubtract(raw, topleft, offset, divider) ==
    F32Div(F32Add(raw, offset), divider)

\* (raw_position - whole_topleft + whole_offset) / divider, one component.
NormalizedPosition(raw, topleft, offset, divider) ==
    F32Div(F32Add(F32Sub(raw, topleft), offset), divider)

\* A MonitorCache whose right-bottom corner is the normalised size alone.
MonitorCache_new_SizeAsCorner(source, whole_topleft, whole_offset, divider) ==
    LET raw_position == <<I32ToF32(source.position[1]), I32ToF32(source.position[2])>>
        raw_size     == <<I32ToF32(source.size[1]), I32ToF32(source.size[2])>>
        normalized_position ==
            [i \in 1..2 |-> NormalizedPosition(raw_position[i], whole_topleft[i],
                                               whole_offset[i], divider)]
        normalized_size == [i \in 1..2 |-> F32Div(raw_size[i], divider)]
    IN  [name |-> source.id, position |-> source.position, size |-> source.size,
         preview_rect |->
            <<normalized_position[1], normalized_position[2],
              normalized_size[1], normalized_size[2]>>]

\* MonitorCache::new
MonitorCache_new(source, whole_topleft, whole_offset, divider) ==
    LET raw_position == <<I32ToF32(source.position[1]), I32ToF32(source.position[2])>>
        raw_size     == <<I32ToF32(source.size[1]), I32ToF32(source.size[2])>>
        normalized_position ==
            [i \in 1..2 |-> NormalizedPosition(raw_position[i], whole_topleft[i],
                                               whole_offset[i], divider)]
        normalized_size == [i \in 1..2 |-> F32Div(raw_size[i], divider)]
    IN  [name |-> source.id, position |-> source.position, size |-> source.size,
         preview_rect |->
            <<normalized_position[1],
              normalized_position[2],
              F32Add(normalized_position[1], normalized_size[1]),
              F32Add(normalized_position[2], normalized_size[2])>>]

\* A display record that is built with the default fitting.
WallpaperCache_new_DefaultFitting(w) ==
    [uuid |-> w.uuid, filename |-> w.filename, fitting |-> DefaultFitting]

\* WallpaperCache::new
WallpaperCache_new(w) ==
    [uuid |-> w.uuid, filename |-> w.filename, fitting |-> w.fitting]

MapSeq(Op(_), s) == [k \in 1..Len(s) |-> Op(s[k])]

\* A rebuild that puts every new MonitorCache in front of the earlier ones.
ViewModel_update_monitors_PushFront(ms) ==
    IF ms = <<>>
    THEN [monitors |-> <<>>, published |-> <<>>]
    ELSE [monitors  |-> LET box == WholeBox(ms)
                         IN  [k \in 1..Len(ms) |->
                                 MonitorCache_new(ms[Len(ms) + 1 - k], box.whole_topleft,
                                                  box.whole_offset, box.divider)],
          published |-> <<[msg |-> "MonitorsUpdated", seen |-> ms]>>]

\* ApplicationViewModel::update_monitors: the preview list it leaves and the
\* notify calls it makes. On an empty source it returns before the notify.
ViewModel_update_monitors(ms) ==
    IF ms = <<>>
    THEN [monitors |-> <<>>, published |-> <<>>]
    ELSE [monitors  |-> LET box == WholeBox(ms)
                         IN  [k \in 1..Len(ms) |->
                                 MonitorCache_new(ms[k], box.whole_topleft,
                                                  box.whole_offset, box.divider)],
          published |-> <<[msg |-> "MonitorsUpdated", seen |-> ms]>>]

\* A rebuild of the display list that announces the monitors instead.
ViewModel_update_wallpapers_AsMonitors(ws) ==
    [wallpapers |-> MapSeq(WallpaperCache_new, ws),
     published  |-> <<[msg |-> "MonitorsUpdated", seen |-> ws]>>]

\* ApplicationViewModel::update_wallpapers
ViewModel_update_wallpapers(ws) ==
    [wallpapers |-> MapSeq(WallpaperCache_new, ws),
     published  |-> <<[msg |-> "WallpapersUpdated", seen |-> ws]>>]

\* The closure the ViewModel subscribes to the model (setup_subscribe): the
\* task it spawns for an event.
ViewModelTaskFor ==
    [msg \in ApplicationEvent |->
        IF msg = "MonitorsUpdated" THEN "vm_update_monitors"
        ELSE "vm_update_wallpapers"]

\* The closure the View subscribes to the ViewModel (setup_subscribe).
ViewTaskFor ==
    [msg \in ApplicationEvent |->
        IF msg = "MonitorsUpdated" THEN "view_update_monitors"
        ELSE "view_update_texture_cache"]

\* spawn_blocking for every invocation of a subscriber closure.
RECURSIVE Spawn(_, _, _)
Spawn(ts, calls, taskFor) ==
    IF calls = <<>> THEN ts
    ELSE LET k == taskFor[Head(calls).msg]
         IN  Spawn([ts EXCEPT ![k] = @ + 1], Tail(calls), taskFor)

\* ------------------------------------- application/view.rs, pure part

\* A reset that lands on the last monitor of the list.
View_update_monitors_Last(vms) ==
    IF vms = <<>> THEN None ELSE Some(Len(vms) - 1)

\* ApplicationView::update_monitors
View_update_monitors(vms) == IF vms = <<>> THEN None ELSE Some(0)

CacheKeys(c) == {e.uuid : e \in c}

\* image::open(filename) succeeds.
Decodes(filename) == filename # "bad.png"

\* A first section without the contains_key test: every file is to be loaded.
TextureCache_snapshot_ReloadAll(vws, c) ==
    [active |-> {vws[k].uuid : k \in 1..Len(vws)},
     unmet  |-> {[uuid |-> vws[k].uuid, filename |-> vws[k].filename] :
                    k \in 1..Len(vws)}]

\* The first lock section of update_texture_cache: active_files, unmet_files.
TextureCache_snapshot(vws, c) ==
    [active |-> {vws[k].uuid : k \in 1..Len(vws)},
     unmet  |-> {[uuid |-> vws[k].uuid, filename |-> vws[k].filename] :
                    k \in {j \in 1..Len(vws) : vws[j].uuid \notin CacheKeys(c)}}]

\* Side of the blank image that stands for a file that did not decode.
PlaceholderSide == 128

\* Side of the box a decoded image is resized into.
ThumbnailBox == 512

\* Width and height of the image files that decode.
ImageSize(filename) == <<640, 480>>

MinOf(i, j) == IF i <= j THEN i ELSE j

\* DynamicImage::resize(box, box): the largest size of the same aspect ratio
\* that fits the box.
Image_resize(size, box) ==
    IF size[1] >= size[2]
    THEN <<box, (size[2] * box) \div size[1]>>
    ELSE <<(size[1] * box) \div size[2], box>>

\* One iteration of the loading loop: the centre square of the resized image
\* with the original size, or of the placeholder with (0, 0).
LoadedEntry(uuid, filename) ==
    LET resized_image == IF Decodes(filename)
                         THEN Image_resize(ImageSize(filename), ThumbnailBox)
                         ELSE <<PlaceholderSide, PlaceholderSide>>
    IN  [uuid |-> uuid, src |-> filename, decoded |-> Decodes(filename),
         rect_size |-> MinOf(resized_image[1], resized_image[2]),
         original_size |-> IF Decodes(filename) THEN ImageSize(filename)
                           ELSE <<0, 0>>]

\* A loading loop that gives up a file that does not decode.
TextureCache_load_SkipFailed(unmet) ==
    {LoadedEntry(u.uuid, u.filename) : u \in {v \in unmet : Decodes(v.filename)}}

\* The loading loop: one entry per unmet file.
TextureCache_load(unmet) ==
    {LoadedEntry(u.uuid, u.filename) : u \in unmet}

\* A last section that forgets to evict.
TextureCache_store_NoRetain(c, newly, active) ==
    {e \in c : e.uuid \notin CacheKeys(newly)} \cup newly

\* The last lock section: HashMap::extend(newly_loaded), then
\* retain(|k, _| active_files.contains(k)).
TextureCache_store(c, newly, active) ==
    {e \in ({e \in c : e.uuid \notin CacheKeys(newly)} \cup newly) :
        e.uuid \in active}

\* ------------------------------------------------ pipeline, operations

RemoveAt(s, k) == SubSeq(s, 1, k - 1) \o SubSeq(s, k + 1, Len(s))

Quiescent == (\A k \in TaskKinds : tasks[k] = 0) /\ passes = <<>>

\* A change of a wallpaper list while passes are between their lock sections.
Disturbed(ps) == [k \in 1..Len(ps) |-> [ps[k] EXCEPT !.alone = FALSE]]

\* background.rs load_monitor_info: the enumerated monitors are given to the
\* model, whose notify runs the ViewModel's closure.
load_monitor_info(new) ==
    LET r == Application_set_monitors(monitors, new)
        n == NotifyAll(registry, handles, r.published)
    IN  /\ ~crashed
        /\ used.sets < MaxSets
        /\ used' = [used EXCEPT !.sets = @ + 1]
        /\ monitors' = r.monitors
        /\ lastSet' = [done |-> TRUE, empty |-> new = <<>>,
                       selected |-> selected # None]
        /\ tasks' = Spawn(tasks, n.calls, ViewModelTaskFor)
        /\ UNCHANGED <<wallpapers, nextId, crashed, lastOp, prevOp>>
        /\ UNCHANGED <<vmMonitors, vmWallpapers, selected, cache, passes, lastFinish>>
        /\ UNCHANGED <<busVars, lockVars, com>>

\* The task ApplicationViewModel::update_monitors.
vm_update_monitors ==
    LET r == ViewModel_update_monitors(monitors)
        n == NotifyAll(ViewRegistry, ViewHandles, r.published)
    IN  /\ ~crashed
        /\ tasks["vm_update_monitors"] > 0
        /\ vmMonitors' = r.monitors
        /\ tasks' = Spawn([tasks EXCEPT !["vm_update_monitors"] = @ - 1],
                          n.calls, ViewTaskFor)
        /\ UNCHANGED <<vmWallpapers, selected, cache, passes, used, lastFinish, lastSet>>
        /\ UNCHANGED <<busVars, modelVars, lockVars, com>>

\* The task ApplicationView::update_monitors.
view_update_monitors ==
    /\ ~crashed
    /\ tasks["view_update_monitors"] > 0
    /\ tasks' = [tasks EXCEPT !["view_update_monitors"] = @ - 1]
    /\ selected' = View_update_monitors(vmMonitors)
    /\ UNCHANGED <<vmMonitors, vmWallpapers, cache, passes, used, lastFinish, lastSet>>
    /\ UNCHANGED <<busVars, modelVars, lockVars, com>>

\* One frame, ApplicationView::update, in which the user clicks monitor j:
\* nothing is shown without a selection, and viewmodel.monitors[selected]
\* panics when the selection is not a position of the preview list.
update_select(j) ==
    /\ ~crashed
    /\ selected # None
    /\ IF selected[1] < Len(vmMonitors)
       THEN /\ j < Len(vmMonitors)
            /\ selected' = Some(j)
            /\ UNCHANGED crashed
       ELSE /\ crashed' = TRUE
            /\ UNCHANGED selected
    /\ UNCHANGED <<vmMonitors, vmWallpapers, cache, tasks, passes, used, lastFinish, lastSet>>
    /\ UNCHANGED <<monitors, wallpapers, nextId, lastOp, prevOp>>
    /\ UNCHANGED <<busVars, lockVars, com>>

NextMonitors ==
    \/ \E new \in MonitorLists : load_monitor_info(new)
    \/ vm_update_monitors
    \/ view_update_monitors
    \/ \E j \in 0..1 : update_select(j)

\* The three objects as main wires them; no monitor is known yet.
InitMonitors == InitModel

SpecMonitors == InitMonitors /\ [][NextMonitors]_vars

\* ------------------------------------------------------ monitor layout
\* Monitors in one list given to the layout.
MaxLayout == 2

LayoutPositions == {<<x, y>> : x \in {0 - 2, 0, 3}, y \in {0 - 1, 0}}

LayoutSizes == {<<1, 1>>, <<2, 3>>, <<3, 2>>}

LayoutMonitors ==
    {[id |-> "m1", position |-> p, size |-> s] :
        p \in LayoutPositions, s \in LayoutSizes}

\* Non-empty lists of small monitors, and the two-monitor desktop.
LayoutLists ==
    UNION {[1..n -> LayoutMonitors] : n \in 1..MaxLayout}
        \cup {<<Monitor1, Monitor2>>}

\* load_monitor_info has just given a list to the model: the ViewModel's
\* task is pending.
InitLayout ==
    /\ registry = <<1>>
    /\ handles = {1}
    /\ nextSub = 2
    /\ dropped = {}
    /\ compacted = FALSE
    /\ lastCalls = <<>>
    /\ lastNotify = NoNotify
    /\ monitors \in LayoutLists
    /\ wallpapers = <<>>
    /\ nextId = 1
    /\ crashed = FALSE
    /\ lastOp = NoOp
    /\ prevOp = NoPrev
    /\ vmMonitors = <<>>
    /\ vmWallpapers = <<>>
    /\ selected = None
    /\ cache = {}
    /\ tasks = [NoTasks EXCEPT !["vm_update_monitors"] = 1]
    /\ passes = <<>>
    /\ used = [sets |-> 1, updates |-> 0]
    /\ lastFinish = NoFinish
    /\ lastSet = [done |-> TRUE, empty |-> FALSE, selected |-> FALSE]
    /\ InitLocks

NextLayout ==
    \/ vm_update_monitors
    \/ view_update_monitors

SpecLayout == InitLayout /\ [][NextLayout]_vars

\* The task ApplicationViewModel::action_add_image with a picked file.
action_add_image(filename) ==
    LET r == Application_add_wallpaper(wallpapers,
                 Wallpaper_new(nextId, filename, DefaultFitting))
        n == NotifyAll(registry, handles, r.published)
    IN  /\ nextId <= MaxPicks
        /\ wallpapers' = r.wallpapers
        /\ nextId' = nextId + 1
        /\ tasks' = Spawn(tasks, n.calls, ViewModelTaskFor)
        /\ passes' = Disturbed(passes)
        /\ UNCHANGED <<monitors, crashed, lastOp, prevOp>>
        /\ UNCHANGED <<vmMonitors, vmWallpapers, selected, cache, used, lastFinish, lastSet>>
        /\ UNCHANGED <<busVars, lockVars, com>>

\* The task ApplicationViewModel::action_perform_wallpaper for position index
\* of the list the frame drew. A panic of update_wallpaper ends the task only.
action_perform_wallpaper(index, op) ==
    LET r == Application_update_wallpaper(wallpapers, index, op)
        n == NotifyAll(registry, handles, r.published)
    IN  /\ used.updates < MaxUpdates
        /\ index < Len(vmWallpapers)
        /\ used' = [used EXCEPT !.updates = @ + 1]
        /\ wallpapers' = r.wallpapers
        /\ tasks' = Spawn(tasks, n.calls, ViewModelTaskFor)
        /\ passes' = IF r.panic THEN passes ELSE Disturbed(passes)
        /\ UNCHANGED <<monitors, nextId, crashed, lastOp, prevOp>>
        /\ UNCHANGED <<vmMonitors, vmWallpapers, selected, cache, lastFinish, lastSet>>
        /\ UNCHANGED <<busVars, lockVars, com>>

\* The task ApplicationViewModel::update_wallpapers.
vm_update_wallpapers ==
    LET r == ViewModel_update_wallpapers(wallpapers)
        n == NotifyAll(ViewRegistry, ViewHandles, r.published)
    IN  /\ tasks["vm_update_wallpapers"] > 0
        /\ vmWallpapers' = r.wallpapers
        /\ tasks' = Spawn([tasks EXCEPT !["vm_update_wallpapers"] = @ - 1],
                          n.calls, ViewTaskFor)
        /\ passes' = IF r.wallpapers = vmWallpapers THEN passes ELSE Disturbed(passes)
        /\ UNCHANGED <<vmMonitors, selected, cache, used, lastFinish, lastSet>>
        /\ UNCHANGED <<busVars, modelVars, lockVars, com>>

\* update_texture_cache up to its last lock section: the snapshot of the
\* display list against the cache (view and viewmodel locked), then the
\* loading loop (no lock held), which touches nothing shared.
texture_cache_begin ==
    LET snap == TextureCache_snapshot(vmWallpapers, cache)
    IN  /\ tasks["view_update_texture_cache"] > 0
        /\ tasks' = [tasks EXCEPT !["view_update_texture_cache"] = @ - 1]
        /\ passes' = Append(Disturbed(passes),
                            [active |-> snap.active,
                             unmet  |-> snap.unmet,
                             newly  |-> TextureCache_load(snap.unmet),
                             alone  |-> passes = <<>>])
        /\ UNCHANGED <<vmMonitors, vmWallpapers, selected, cache, used, lastFinish, lastSet>>
        /\ UNCHANGED <<busVars, modelVars, lockVars, com>>

\* update_texture_cache, last lock section of pass k (view locked).
texture_cache_store(k) ==
    /\ k \in 1..Len(passes)
    /\ cache' = TextureCache_store(cache, passes[k].newly, passes[k].active)
    /\ passes' = Disturbed(RemoveAt(passes, k))
    /\ lastFinish' = IF passes[k].alone
                     THEN [done |-> TRUE, alone |-> TRUE,
                           keys |-> CacheKeys(cache'),
                           listIds |-> {vmWallpapers[j].uuid :
                                           j \in 1..Len(vmWallpapers)},
                           modelIds |-> Ids(wallpapers),
                           synced |-> vmWallpapers =
                                         MapSeq(WallpaperCache_new, wallpapers),
                           loaded |-> passes[k].newly]
                     ELSE [done |-> TRUE, alone |-> FALSE, keys |-> {},
                           listIds |-> {}, modelIds |-> {}, synced |-> FALSE,
                           loaded |-> {}]
    /\ UNCHANGED <<vmMonitors, vmWallpapers, selected, tasks, used, lastSet>>
    /\ UNCHANGED <<busVars, modelVars, lockVars, com>>

NextCache ==
    \/ \E f \in Paths : action_add_image(f)
    \/ \E index \in 0..MaxPicks : \E op \in OpInputs :
          action_perform_wallpaper(index, op)
    \/ vm_update_wallpapers
    \/ texture_cache_begin
    \/ \E k \in 1..Len(passes) : texture_cache_store(k)

\* The running application once the first monitor list has gone through the
\* pipeline: the wallpaper panel is drawn only with a monitor selected.
InitCache ==
    /\ registry = <<1>>
    /\ handles = {1}
    /\ nextSub = 2
    /\ dropped = {}
    /\ compacted = FALSE
    /\ lastCalls = <<>>
    /\ lastNotify = NoNotify
    /\ monitors = <<Monitor1>>
    /\ wallpapers = <<>>
    /\ nextId = 1
    /\ crashed = FALSE
    /\ lastOp = NoOp
    /\ prevOp = NoPrev
    /\ vmMonitors = ViewModel_update_monitors(<<Monitor1>>).monitors
    /\ vmWallpapers = <<>>
    /\ selected = Some(0)
    /\ cache = {}
    /\ tasks = NoTasks
    /\ passes = <<>>
    /\ used = [sets |-> 1, updates |-> 0]
    /\ lastFinish = NoFinish
    /\ lastSet = [done |-> TRUE, empty |-> FALSE, selected |-> FALSE]
    /\ InitLocks

SpecCache == InitCache /\ [][NextCache]_vars

\* An add-image action that treats a cancelled dialog as an empty path.
ViewModel_action_add_image_CancelAdds(ws, id, picked) ==
    LET path == IF picked = None THEN "" ELSE picked[1]
        r    == Application_add_wallpaper(ws, Wallpaper_new(id, path, DefaultFitting))
    IN  [result |-> "Ok", created |-> TRUE, wallpapers |-> r.wallpapers,
         published |-> r.published]

\* ApplicationViewModel::action_add_image once show_open_single_file() has
\* returned its Option: None => return Ok(()), Some(p) => add_wallpaper(
\* Wallpaper::new(p, Fitting::Cover)) and Ok(()).
ViewModel_action_add_image(ws, id, picked) ==
    IF picked = None
    THEN [result |-> "Ok", created |-> FALSE, wallpapers |-> ws,
          published |-> <<>>]
    ELSE LET r == Application_add_wallpaper(ws,
                      Wallpaper_new(id, picked[1], DefaultFitting))
         IN  [result |-> "Ok", created |-> TRUE, wallpapers |-> r.wallpapers,
              published |-> r.published]

\* What the file picker returns: nothing when the user cancels, or a path.
PickerResults == {None} \cup {Some(f) : f \in Paths}

\* The task ApplicationViewModel::action_add_image from the dialog's return
\* to the task's end.
add_image_task(picked) ==
    LET r == ViewModel_action_add_image(wallpapers, nextId, picked)
        n == NotifyAll(registry, handles, r.published)
    IN  /\ nextId <= MaxPicks
        /\ wallpapers' = r.wallpapers
        /\ nextId' = IF r.created THEN nextId + 1 ELSE nextId
        /\ tasks' = Spawn(tasks, n.calls, ViewModelTaskFor)
        /\ passes' = IF r.published = <<>> THEN passes ELSE Disturbed(passes)
        /\ PublishAll(r.published)
        /\ RecordResult("action_add_image", Len(wallpapers), "none",
                        r.published, r.result)
        /\ UNCHANGED <<monitors, crashed>>
        /\ UNCHANGED <<vmMonitors, vmWallpapers, selected, cache, used, lastFinish, lastSet>>
        /\ UNCHANGED <<lockVars, com>>

NextPicker ==
    \/ \E picked \in PickerResults : add_image_task(picked)
    \/ vm_update_wallpapers
    \/ texture_cache_begin
    \/ \E k \in 1..Len(passes) : texture_cache_store(k)

\* The running application with "Add Image" as the only thing the user does.
SpecPicker == InitCache /\ [][NextPicker]_vars

\* The running application with two monitors enumerated and shown: the
\* first is selected, no wallpaper has been added yet.
InitSides ==
    /\ registry = <<1>>
    /\ handles = {1}
    /\ nextSub = 2
    /\ dropped = {}
    /\ compacted = FALSE
    /\ lastCalls = <<>>
    /\ lastNotify = NoNotify
    /\ monitors = <<Monitor1, Monitor2>>
    /\ wallpapers = <<>>
    /\ nextId = 1
    /\ crashed = FALSE
    /\ lastOp = NoOp
    /\ prevOp = NoPrev
    /\ vmMonitors = ViewModel_update_monitors(<<Monitor1, Monitor2>>).monitors
    /\ vmWallpapers = <<>>
    /\ selected = View_update_monitors(vmMonitors)
    /\ cache = {}
    /\ tasks = NoTasks
    /\ passes = <<>>
    /\ used = [sets |-> 1, updates |-> 0]
    /\ lastFinish = NoFinish
    /\ lastSet = [done |-> TRUE, empty |-> FALSE, selected |-> FALSE]
    /\ InitLocks

\* The user clicks a monitor, adds an image and removes a wallpaper, and the
\* tasks of the wallpaper side run in any order.
NextSides ==
    \/ \E j \in 0..1 : update_select(j)
    \/ \E f \in {"a.png"} : action_add_image(f)
    \/ \E index \in 0..MaxPicks :
          \E op \in {[kind |-> "Remove", fitting |-> "none"]} :
             action_perform_wallpaper(index, op)
    \/ vm_update_wallpapers
    \/ texture_cache_begin
    \/ \E k \in 1..Len(passes) : texture_cache_store(k)

SpecSides == InitSides /\ [][NextSides]_vars

\* What the desktop wallpaper interface does when the monitors are asked for:
\* it lists them, or its construction fails, or the enumeration fails.
EnumerateOutcomes == {"Ok", "NewFails", "MonitorsFails"}

\* A load_monitor_info that gives the model an empty list when the
\* enumeration fails.
Background_load_monitor_info_EmptyOnError(ms, outcome, enumerated) ==
    LET r == Application_set_monitors(ms, IF outcome = "Ok" THEN enumerated ELSE <<>>)
    IN  [result |-> IF outcome = "Ok" THEN "Ok" ELSE "Err", called |-> TRUE,
         monitors |-> r.monitors, published |-> r.published]

\* background.rs load_monitor_info: WallpaperInterface::new()? and
\* wallpaper.monitors()? return the error at once; otherwise the model is
\* locked, set_monitors(monitors) is called and Ok(()) is returned.
Background_load_monitor_info(ms, outcome, enumerated) ==
    IF outcome # "Ok"
    THEN [result |-> "Err", called |-> FALSE, monitors |-> ms, published |-> <<>>]
    ELSE LET r == Application_set_monitors(ms, enumerated)
         IN  [result |-> "Ok", called |-> TRUE, monitors |-> r.monitors,
              published |-> r.published]

\* One run of load_monitor_info against the interface's outcome.
load_monitor_info_task(outcome, enumerated) ==
    LET r == Background_load_monitor_info(monitors, outcome, enumerated)
        n == NotifyAll(registry, handles, r.published)
    IN  /\ ~crashed
        /\ used.sets < MaxSets
        /\ used' = [used EXCEPT !.sets = @ + 1]
        /\ monitors' = r.monitors
        /\ lastSet' = IF r.called
                      THEN [done |-> TRUE, empty |-> enumerated = <<>>,
                            selected |-> selected # None]
                      ELSE lastSet
        /\ tasks' = Spawn(tasks, n.calls, ViewModelTaskFor)
        /\ PublishAll(r.published)
        /\ RecordResult("load_monitor_info", 0, "none", r.published, r.result)
        /\ UNCHANGED <<wallpapers, nextId, crashed>>
        /\ UNCHANGED <<vmMonitors, vmWallpapers, selected, cache, passes, lastFinish>>
        /\ UNCHANGED <<lockVars, com>>

\* The monitors are enumerated again and again, with and without success,
\* while the model has wallpapers; the tasks of the monitor side run in any
\* order (those of the wallpaper side are not run here).
NextEnumerate ==
    \/ \E outcome \in EnumerateOutcomes : \E new \in MonitorLists :
          load_monitor_info_task(outcome, new)
    \/ \E f \in {"a.png"} : add_wallpaper(f)
    \/ vm_update_monitors
    \/ view_update_monitors

SpecEnumerate == InitModel /\ [][NextEnumerate]_vars

\* The operations of the context menu that keep every wallpaper in the list.
ReorderInputs == {op \in OpInputs : op.kind # "Remove"}

\* The wallpapers the user added before the reordering starts; the file of
\* the second does not decode.
ReorderList ==
    <<Wallpaper_new(1, "a.png", DefaultFitting),
      Wallpaper_new(2, "bad.png", DefaultFitting),
      Wallpaper_new(3, "a.png", DefaultFitting)>>

\* The running application after three images were added and the passes they
\* triggered have finished: the display list and the cache match the list.
InitReorder ==
    /\ registry = <<1>>
    /\ handles = {1}
    /\ nextSub = 2
    /\ dropped = {}
    /\ compacted = FALSE
    /\ lastCalls = <<>>
    /\ lastNotify = NoNotify
    /\ monitors = <<Monitor1>>
    /\ wallpapers = ReorderList
    /\ nextId = Len(ReorderList) + 1
    /\ crashed = FALSE
    /\ lastOp = NoOp
    /\ prevOp = NoPrev
    /\ vmMonitors = ViewModel_update_monitors(<<Monitor1>>).monitors
    /\ vmWallpapers = ViewModel_update_wallpapers(ReorderList).wallpapers
    /\ selected = Some(0)
    /\ cache = TextureCache_store({},
                   TextureCache_load(TextureCache_snapshot(vmWallpapers, {}).unmet),
                   TextureCache_snapshot(vmWallpapers, {}).active)
    /\ tasks = NoTasks
    /\ passes = <<>>
    /\ used = [sets |-> 1, updates |-> 0]
    /\ lastFinish = NoFinish
    /\ lastSet = [done |-> TRUE, empty |-> FALSE, selected |-> FALSE]
    /\ InitLocks

\* The task ApplicationViewModel::action_perform_wallpaper a frame spawned for
\* position index of the list it drew, from its spawn to its end.
perform_task(index, op) ==
    LET r == Application_update_wallpaper(wallpapers, index, op)
        n == NotifyAll(registry, handles, r.published)
    IN  /\ dispatched < MaxDispatch
        /\ index < Len(vmWallpapers)
        /\ dispatched' = dispatched + 1
        /\ UNCHANGED com
        /\ wallpapers' = r.wallpapers
        /\ tasks' = Spawn(tasks, n.calls, ViewModelTaskFor)
        /\ passes' = IF r.panic THEN passes ELSE Disturbed(passes)
        /\ PublishAll(r.published)
        /\ Record(op.kind, index, op.fitting, r.published)
        /\ UNCHANGED <<monitors, nextId, crashed>>
        /\ UNCHANGED <<vmMonitors, vmWallpapers, selected, cache, used, lastFinish, lastSet>>
        /\ UNCHANGED <<locks, threads, queue>>

\* The user moves wallpapers and changes fittings; the rebuilds and the
\* passes this triggers run in any order.
NextReorder ==
    \/ \E index \in 0..(Len(ReorderList) - 1) : \E op \in ReorderInputs :
          perform_task(index, op)
    \/ vm_update_wallpapers
    \/ texture_cache_begin
    \/ \E k \in 1..Len(passes) : texture_cache_store(k)

SpecReorder == InitReorder /\ [][NextReorder]_vars

\* ------------------------------------------------- locks and threads

Free(x) == locks[x] = "free"

At(t, a) == threads[t].at = a

\* Mutex::lock() returning the guards of xs to t.
Hold(t, xs) == [x \in Mutexes |-> IF x \in xs THEN t ELSE locks[x]]

\* The guards of t dropped, at the end of its function or while it unwinds.
Release(t) == [x \in Mutexes |-> IF locks[x] = t THEN "free" ELSE locks[x]]

Goto(t, a, args) == [threads EXCEPT ![t] = [at |-> a, args |-> args]]

\* The first statement of ApplicationView::update needs the view, in whose
\* mutex the object lives, and then locks the viewmodel.
ui_lock_view ==
    /\ ~crashed
    /\ At("ui", "idle")
    /\ Free("view")
    /\ locks' = Hold("ui", {"view"})
    /\ threads' = Goto("ui", "lock_viewmodel", <<>>)
    /\ UNCHANGED <<queue, dispatched, com>>
    /\ UNCHANGED <<busVars, modelVars, pipeVars>>

\* let viewmodel = viewmodel_ref.lock(): the frame waits here while another
\* thread holds the viewmodel.
ui_lock_viewmodel ==
    /\ ~crashed
    /\ At("ui", "lock_viewmodel")
    /\ Free("viewmodel")
    /\ locks' = Hold("ui", {"viewmodel"})
    /\ threads' = Goto("ui", "draw", <<>>)
    /\ UNCHANGED <<queue, dispatched, com>>
    /\ UNCHANGED <<busVars, modelVars, pipeVars>>

\* What the user does in one frame with the panels drawn: nothing, "Add
\* Image", an entry of a wallpaper's context menu, or a double click on a
\* wallpaper; sel is the monitor selected when the wallpapers are drawn.
FrameActs(sel) ==
    {[kind |-> "none", args |-> <<>>], [kind |-> "add_image", args |-> <<>>]}
    \cup {[kind |-> "perform", args |-> <<i, op>>] :
             i \in 0..(Len(vmWallpapers) - 1), op \in {[kind |-> "Remove", fitting |-> "none"]}}
    \cup {[kind |-> "set_wallpaper", args |-> <<sel, i>>] :
             i \in 0..(Len(vmWallpapers) - 1)}

\* The rest of ApplicationView::update, viewmodel locked: it returns when no
\* monitor is selected, panics when the selection is not a position of the
\* preview list, and otherwise draws the panels, where the user may click
\* monitor j and start one action task with spawn_blocking.
ui_draw(j, act) ==
    /\ ~crashed
    /\ At("ui", "draw")
    /\ locks' = Release("ui")
    /\ threads' = Goto("ui", "idle", <<>>)
    /\ IF selected = None
       THEN /\ j = 0 /\ act.kind = "none"
            /\ UNCHANGED <<selected, crashed, queue, dispatched, com>>
       ELSE IF selected[1] >= Len(vmMonitors)
       THEN /\ j = 0 /\ act.kind = "none"
            /\ crashed' = TRUE
            /\ UNCHANGED <<selected, queue, dispatched, com>>
       ELSE /\ j < Len(vmMonitors)
            /\ act \in FrameActs(j)
            /\ selected' = Some(j)
            /\ IF act.kind = "none"
               THEN UNCHANGED <<queue, dispatched, com>>
               ELSE /\ dispatched < MaxDispatch
                    /\ dispatched' = dispatched + 1
                    /\ UNCHANGED com
                    /\ queue' = [queue EXCEPT ![act.kind] = Append(@, act.args)]
            /\ UNCHANGED crashed
    /\ UNCHANGED <<vmMonitors, vmWallpapers, cache, tasks, passes, used, lastFinish, lastSet>>
    /\ UNCHANGED <<monitors, wallpapers, nextId, lastOp, prevOp>>
    /\ UNCHANGED busVars

\* background.rs load_monitor_info: let mut locked = application.lock().
monitor_info_lock_model ==
    /\ ~crashed
    /\ At("monitor_info", "idle")
    /\ used.sets < MaxSets
    /\ Free("model")
    /\ locks' = Hold("monitor_info", {"model"})
    /\ threads' = Goto("monitor_info", "set_monitors", <<>>)
    /\ UNCHANGED <<queue, dispatched, com>>
    /\ UNCHANGED <<busVars, modelVars, pipeVars>>

\* locked.set_monitors(monitors) through the guard, then the guard's drop.
monitor_info_set_monitors(new) ==
    LET r == Application_set_monitors(monitors, new)
        n == NotifyAll(registry, handles, r.published)
    IN  /\ ~crashed
        /\ At("monitor_info", "set_monitors")
        /\ used' = [used EXCEPT !.sets = @ + 1]
        /\ monitors' = r.monitors
        /\ lastSet' = [done |-> TRUE, empty |-> new = <<>>,
                       selected |-> selected # None]
        /\ tasks' = Spawn(tasks, n.calls, ViewModelTaskFor)
        /\ locks' = Release("monitor_info")
        /\ threads' = Goto("monitor_info", "idle", <<>>)
        /\ UNCHANGED <<queue, dispatched, com>>
        /\ UNCHANGED <<wallpapers, nextId, crashed, lastOp, prevOp>>
        /\ UNCHANGED <<vmMonitors, vmWallpapers, selected, cache, passes, lastFinish>>
        /\ UNCHANGED busVars

\* Where an action task stands once it holds the viewmodel.
AfterViewModel ==
    [k \in ActionKinds |-> IF k = "add_image" THEN "dialog" ELSE "lock_model"]

\* The call an action task makes once it holds the model too.
AfterModel ==
    [k \in ActionKinds |->
        IF k = "add_image" THEN "add_wallpaper"
        ELSE IF k = "perform" THEN "update_wallpaper" ELSE "os_call"]

\* A spawned action task starts on the pool: let viewmodel = this.lock(), the
\* first statement of action_add_image, action_perform_wallpaper and
\* action_set_wallpaper.
action_lock_viewmodel(k) ==
    /\ ~crashed
    /\ At(k, "idle")
    /\ queue[k] # <<>>
    /\ Free("viewmodel")
    /\ locks' = Hold(k, {"viewmodel"})
    /\ threads' = Goto(k, AfterViewModel[k], Head(queue[k]))
    /\ queue' = [queue EXCEPT ![k] = Tail(@)]
    /\ UNCHANGED <<dispatched, com>>
    /\ UNCHANGED <<busVars, modelVars, pipeVars>>

\* FileDialog::show_open_single_file() returns, the viewmodel still locked:
\* the user picked a file, or cancelled and the task returns Ok(()).
add_image_dialog(picked) ==
    /\ ~crashed
    /\ At("add_image", "dialog")
    /\ IF picked = None
       THEN /\ locks' = Release("add_image")
            /\ threads' = Goto("add_image", "idle", <<>>)
       ELSE /\ threads' = Goto("add_image", "lock_model", picked)
            /\ UNCHANGED locks
    /\ UNCHANGED <<queue, dispatched, com>>
    /\ UNCHANGED <<busVars, modelVars, pipeVars>>

\* viewmodel.model.lock() in an action task that holds the viewmodel.
action_lock_model(k) ==
    /\ ~crashed
    /\ At(k, "lock_model")
    /\ Free("model")
    /\ locks' = Hold(k, {"model"})
    /\ threads' = Goto(k, AfterModel[k], threads[k].args)
    /\ UNCHANGED <<queue, dispatched, com>>
    /\ UNCHANGED <<busVars, modelVars, pipeVars>>

\* locked.add_wallpaper(Wallpaper::new(path, Fitting::Cover)), then both
\* guards drop.
add_image_add_wallpaper ==
    LET r == Application_add_wallpaper(wallpapers,
                 Wallpaper_new(nextId, threads["add_image"].args[1], DefaultFitting))
        n == NotifyAll(registry, handles, r.published)
    IN  /\ ~crashed
        /\ At("add_image", "add_wallpaper")
        /\ wallpapers' = r.wallpapers
        /\ nextId' = nextId + 1
        /\ tasks' = Spawn(tasks, n.calls, ViewModelTaskFor)
        /\ passes' = Disturbed(passes)
        /\ locks' = Release("add_image")
        /\ threads' = Goto("add_image", "idle", <<>>)
        /\ UNCHANGED <<queue, dispatched, com>>
        /\ UNCHANGED <<monitors, crashed, lastOp, prevOp>>
        /\ UNCHANGED <<vmMonitors, vmWallpapers, selected, cache, used, lastFinish, lastSet>>
        /\ UNCHANGED busVars

\* locked.update_wallpaper(index, op), then both guards drop; they also drop
\* when update_wallpaper panics, which ends this task only.
perform_update_wallpaper ==
    LET r == Application_update_wallpaper(wallpapers,
                 threads["perform"].args[1], threads["perform"].args[2])
        n == NotifyAll(registry, handles, r.published)
    IN  /\ ~crashed
        /\ At("perform", "update_wallpaper")
        /\ wallpapers' = r.wallpapers
        /\ tasks' = Spawn(tasks, n.calls, ViewModelTaskFor)
        /\ passes' = IF r.panic THEN passes ELSE Disturbed(passes)
        /\ locks' = Release("perform")
        /\ threads' = Goto("perform", "idle", <<>>)
        /\ UNCHANGED <<queue, dispatched, com>>
        /\ UNCHANGED <<monitors, nextId, crashed, lastOp, prevOp>>
        /\ UNCHANGED <<vmMonitors, vmWallpapers, selected, cache, used, lastFinish, lastSet>>
        /\ UNCHANGED busVars

\* locked.apply_wallpaper_for_monitor(monitor_index, wallpaper_index) returns
\* from the desktop wallpaper interface; the result is logged and both guards
\* drop, as they do when an index is stale and the call panics.
set_wallpaper_return(outcome) ==
    LET r == Application_apply_wallpaper_for_monitor(monitors, wallpapers,
                 threads["set_wallpaper"].args[1],
                 threads["set_wallpaper"].args[2], outcome)
        n == NotifyAll(registry, handles, r.published)
    IN  /\ ~crashed
        /\ At("set_wallpaper", "os_call")
        /\ monitors' = r.monitors
        /\ wallpapers' = r.wallpapers
        /\ tasks' = Spawn(tasks, n.calls, ViewModelTaskFor)
        /\ locks' = Release("set_wallpaper")
        /\ threads' = Goto("set_wallpaper", "idle", <<>>)
        /\ UNCHANGED <<queue, dispatched, com>>
        /\ UNCHANGED <<nextId, crashed, lastOp, prevOp>>
        /\ UNCHANGED <<vmMonitors, vmWallpapers, selected, cache, passes, used, lastFinish, lastSet>>
        /\ UNCHANGED busVars

\* The tasks the subscribers spawn take their locks, work and return without
\* waiting for anything else: each runs once the mutexes it locks are free.
NextLocks ==
    \/ ui_lock_view
    \/ ui_lock_viewmodel
    \/ \E j \in 0..1 : \E act \in FrameActs(j) : ui_draw(j, act)
    \/ monitor_info_lock_model
    \/ \E new \in MonitorLists : monitor_info_set_monitors(new)
    \/ \E k \in ActionKinds : action_lock_viewmodel(k)
    \/ \E picked \in {None, <<"a.png">>} : add_image_dialog(picked)
    \/ \E k \in ActionKinds : action_lock_model(k)
    \/ add_image_add_wallpaper
    \/ perform_update_wallpaper
    \/ \E outcome \in ApplyOutcomes : set_wallpaper_return(outcome)
    \/ (Free("viewmodel") /\ Free("model") /\ vm_update_monitors)
    \/ (Free("view") /\ Free("viewmodel") /\ view_update_monitors)
    \/ (Free("viewmodel") /\ Free("model") /\ vm_update_wallpapers)
    \/ (Free("view") /\ Free("viewmodel") /\ texture_cache_begin)
    \/ \E k \in 1..Len(passes) : (Free("view") /\ texture_cache_store(k))

\* The running application with its first monitor selected.
SpecLocks == InitCache /\ [][NextLocks]_vars

\* ------------------------------------------- positions that go stale

\* An action task that looks at the length of the list before it calls the
\* model and returns when the position is not in the list.
ViewModel_action_perform_wallpaper_Checked(ws, index, op) ==
    IF index >= Len(ws)
    THEN [panic |-> FALSE, wallpapers |-> ws, published |-> <<>>]
    ELSE Application_update_wallpaper(ws, index, op)

\* ApplicationViewModel::action_perform_wallpaper: both mutexes locked, then
\* locked.update_wallpaper(index, op) on the list as it is by then.
ViewModel_action_perform_wallpaper(ws, index, op) ==
    Application_update_wallpaper(ws, index, op)

\* ui_draw_image_items, context menu of item i of viewmodel.wallpapers:
\* spawn_blocking(move || action_perform_wallpaper(viewmodel, i, op)). The
\* closure captures the position and the operation; the id of the wallpaper
\* the frame drew at that position is kept beside them as history.
frame_dispatch_perform(i, op) ==
    /\ dispatched < MaxDispatch
    /\ i < Len(vmWallpapers)
    /\ dispatched' = dispatched + 1
    /\ UNCHANGED com
    /\ queue' = [queue EXCEPT !["perform"] =
                    Append(@, <<i, op, vmWallpapers[i + 1].uuid>>)]
    /\ UNCHANGED <<locks, threads>>
    /\ UNCHANGED <<busVars, modelVars, pipeVars>>

\* One spawned action_perform_wallpaper task runs from its first lock to its
\* end; the pool may run the waiting tasks in any order. A panic of
\* update_wallpaper ends the task only. The thread record keeps what the task
\* was called with.
worker_perform(k) ==
    LET a == queue["perform"][k]
        r == ViewModel_action_perform_wallpaper(wallpapers, a[1], a[2])
        n == NotifyAll(registry, handles, r.published)
    IN  /\ k \in 1..Len(queue["perform"])
        /\ queue' = [queue EXCEPT !["perform"] = RemoveAt(@, k)]
        /\ threads' = Goto("perform", "idle", a)
        /\ wallpapers' = r.wallpapers
        /\ tasks' = Spawn(tasks, n.calls, ViewModelTaskFor)
        /\ passes' = IF r.panic THEN passes ELSE Disturbed(passes)
        /\ PublishAll(r.published)
        /\ RecordResult(a[2].kind, a[1], a[2].fitting, r.published,
                        IF r.panic THEN "panic" ELSE "returned")
        /\ UNCHANGED <<monitors, nextId, crashed>>
        /\ UNCHANGED <<vmMonitors, vmWallpapers, selected, cache, used, lastFinish, lastSet>>
        /\ UNCHANGED <<locks, dispatched, com>>

\* Frames dispatch context-menu operations for the positions they draw, the
\* worker tasks apply them, and the display list is rebuilt, in any order.
NextStale ==
    \/ \E i \in 0..(Len(ReorderList) - 1) : \E op \in OpInputs :
          frame_dispatch_perform(i, op)
    \/ \E k \in 1..Len(queue["perform"]) : worker_perform(k)
    \/ vm_update_wallpapers

SpecStale == InitReorder /\ [][NextStale]_vars

\* ------------------------------------------ callbacks that lock again

\* A lock() that also returns to the thread that holds the mutex.
Mutex_lock_Reentrant(t, x) == locks[x] \in {"free", t}

\* Mutex::lock() of parking_lot and of std::sync on the target: the call
\* returns to t only when nobody holds x, t included.
Mutex_lock(t, x) == locks[x] = "free"

\* What a subscriber's closure may do when it is called: hand the work to
\* spawn_blocking (the registered closures), lock another object, lock the
\* Application that is notifying, or call subscribe or notify on the manager
\* that is notifying.
CallbackBehaviours ==
    {"spawn", "lock_viewmodel", "lock_model", "subscribe", "notify"}

\* The mutex a closure needs before it can go on.
CallbackWants ==
    [b \in CallbackBehaviours \ {"spawn"} |->
        IF b = "lock_viewmodel" THEN "viewmodel"
        ELSE IF b = "lock_model" THEN "model" ELSE "subscriptions"]

\* The closures whose lock is one the notifying thread took for the notify.
Reentrant == {"lock_model", "subscribe", "notify"}

\* setup_subscribe on another thread: model.lock(), then model.subscribe(..),
\* which pushes under the manager's mutex.
locked_subscribe ==
    /\ Mutex_lock("ui", "model")
    /\ Mutex_lock("ui", "subscriptions")
    /\ subscribe

\* locked.set_monitors(monitors) up to the first statement of
\* EventManager::notify: the list is stored and the manager's mutex taken,
\* the Application's guard still alive.
notify_lock(new) ==
    /\ At("monitor_info", "set_monitors")
    /\ Mutex_lock("monitor_info", "subscriptions")
    /\ used' = [used EXCEPT !.sets = @ + 1]
    /\ monitors' = Application_set_monitors(monitors, new).monitors
    /\ locks' = Hold("monitor_info", {"model", "subscriptions"})
    /\ threads' = Goto("monitor_info", "notify_loop", <<"MonitorsUpdated", 1, TRUE>>)
    /\ lastCalls' = <<>>
    /\ UNCHANGED <<registry, handles, nextSub, dropped, compacted, lastNotify>>
    /\ UNCHANGED <<wallpapers, nextId, crashed, lastOp, prevOp>>
    /\ UNCHANGED <<vmMonitors, vmWallpapers, selected, cache, tasks, passes, lastFinish, lastSet>>
    /\ UNCHANGED <<queue, dispatched, com>>

\* One turn of the for loop of notify: the entry is upgraded and, when its
\* owner is alive, the closure is called on the notifying thread. A closure
\* that spawns returns at once; any other stands at its lock() call.
notify_call(b) ==
    LET a == threads["monitor_info"].args
        s == registry[a[2]]
        r == WeakSubscription_notify(s, handles, a[1])
    IN  /\ At("monitor_info", "notify_loop")
        /\ a[2] <= Len(registry)
        /\ lastCalls' = lastCalls \o r.calls
        /\ IF ~r.ret
           THEN /\ b = "spawn"
                /\ threads' = Goto("monitor_info", "notify_loop", <<a[1], a[2] + 1, FALSE>>)
                /\ UNCHANGED tasks
           ELSE IF b = "spawn"
           THEN /\ threads' = Goto("monitor_info", "notify_loop", <<a[1], a[2] + 1, a[3]>>)
                /\ tasks' = Spawn(tasks, r.calls, ViewModelTaskFor)
           ELSE /\ threads' = Goto("monitor_info", "callback_lock", <<a[1], a[2], a[3], b>>)
                /\ UNCHANGED tasks
        /\ UNCHANGED <<registry, handles, nextSub, dropped, compacted, lastNotify>>
        /\ UNCHANGED modelVars
        /\ UNCHANGED <<vmMonitors, vmWallpapers, selected, cache, passes, used, lastFinish, lastSet>>
        /\ UNCHANGED <<locks, queue, dispatched, com>>

\* The lock() call inside the closure returns; the closure does its work,
\* drops the guard and returns to the loop.
callback_lock ==
    LET a == threads["monitor_info"].args
    IN  /\ At("monitor_info", "callback_lock")
        /\ Mutex_lock("monitor_info", CallbackWants[a[4]])
        /\ threads' = Goto("monitor_info", "notify_loop", <<a[1], a[2] + 1, a[3]>>)
        /\ UNCHANGED <<locks, queue, dispatched, com>>
        /\ UNCHANGED <<busVars, modelVars, pipeVars>>

\* The loop is over: the expired entries are dropped when one was met, notify
\* and set_monitors return and both guards are dropped.
notify_return ==
    LET a == threads["monitor_info"].args
    IN  /\ At("monitor_info", "notify_loop")
        /\ a[2] > Len(registry)
        /\ registry' = IF ~a[3] THEN Retain(registry, handles) ELSE registry
        /\ compacted' = (compacted \/ ~a[3])
        /\ locks' = Release("monitor_info")
        /\ threads' = Goto("monitor_info", "idle", <<>>)
        /\ UNCHANGED <<handles, nextSub, dropped, lastCalls, lastNotify>>
        /\ UNCHANGED <<modelVars, pipeVars>>
        /\ UNCHANGED <<queue, dispatched, com>>

\* One thread notifies while another subscribes and owners drop their
\* handles; the closures do any of the things a closure may do.
NextReentrant ==
    \/ locked_subscribe
    \/ \E s \in handles : drop_subscription(s)
    \/ monitor_info_lock_model
    \/ \E new \in MonitorLists : notify_lock(new)
    \/ \E b \in CallbackBehaviours : notify_call(b)
    \/ callback_lock
    \/ notify_return

SpecReentrant == InitModel /\ [][NextReentrant]_vars

\* ------------------------------- view/application.rs, the cache by position

\* WallpaperView::new: the size is not known yet.
WallpaperView_new(w) ==
    [uuid |-> w.uuid, filename |-> w.filename, size |-> None, fitting |-> w.fitting]

\* The cache entry kept under id u.
CacheEntry(c, u) == CHOOSE e \in c : e.uuid = u

\* The positions (from 0) of the wallpapers of source that have no entry in
\* cache c, in list order.
RECURSIVE UnmetFrom(_, _, _)
UnmetFrom(source, c, i) ==
    IF i > Len(source) THEN <<>>
    ELSE IF source[i].uuid \in CacheKeys(c)
         THEN UnmetFrom(source, c, i + 1)
         ELSE <<[index |-> i - 1, filename |-> source[i].filename]>>
                 \o UnmetFrom(source, c, i + 1)

\* The "Just push metadata" section of vm_reconstruct_wallpaper_cache: the
\* display list rebuilt from the copy of the model's list, the ids found in
\* the cache, and (position, filename) for every wallpaper not found.
Reconstruct_metadata(source, c) ==
    [wallpapers |->
        [i \in 1..Len(source) |->
            IF source[i].uuid \in CacheKeys(c)
            THEN [WallpaperView_new(source[i]) EXCEPT
                     !.size = Some(CacheEntry(c, source[i].uuid).original_size)]
            ELSE WallpaperView_new(source[i])],
     active |-> {source[i].uuid : i \in {j \in 1..Len(source) :
                                            source[j].uuid \in CacheKeys(c)}},
     unmet  |-> UnmetFrom(source, c, 1)]

\* The lock section that ends one turn of the loading loop: the id is read
\* from the display list, as it is by now, at the position kept since the
\* metadata section, and the thumbnail decoded from the kept filename is
\* inserted under that id. The index expression panics on a position that
\* the list no longer has.
Reconstruct_store(vws, c, item) ==
    IF item.index >= Len(vws)
    THEN [panic |-> TRUE, wallpapers |-> vws, cache |-> c, id |-> 0]
    ELSE LET id == vws[item.index + 1].uuid
             e  == LoadedEntry(id, item.filename)
         IN  [panic |-> FALSE,
              wallpapers |-> [vws EXCEPT ![item.index + 1].size =
                                            Some(e.original_size)],
              cache |-> {x \in c : x.uuid # id} \cup {e},
              id |-> id]

\* The closure the View of view/application.rs subscribes to the model
\* (setup_subscribe): vm_update_monitors for MonitorsUpdated,
\* vm_reconstruct_wallpaper_cache for WallpapersUpdated.
ModelViewTaskFor ==
    [msg \in ApplicationEvent |->
        IF msg = "MonitorsUpdated" THEN "view_update_monitors"
        ELSE "view_update_texture_cache"]

\* The running application with two images added, the second of which does
\* not decode; the task of the second add is still to run.
InitReconstruct ==
    /\ registry = <<1>>
    /\ handles = {1}
    /\ nextSub = 2
    /\ dropped = {}
    /\ compacted = FALSE
    /\ lastCalls = <<>>
    /\ lastNotify = NoNotify
    /\ monitors = <<Monitor1>>
    /\ wallpapers = SubSeq(ReorderList, 1, 2)
    /\ nextId = 3
    /\ crashed = FALSE
    /\ lastOp = NoOp
    /\ prevOp = NoPrev
    /\ vmMonitors = ViewModel_update_monitors(<<Monitor1>>).monitors
    /\ vmWallpapers = <<>>
    /\ selected = Some(0)
    /\ cache = {}
    /\ tasks = [NoTasks EXCEPT !["view_update_texture_cache"] = 1]
    /\ passes = <<>>
    /\ used = [sets |-> 1, updates |-> 0]
    /\ lastFinish = NoFinish
    /\ lastSet = [done |-> TRUE, empty |-> FALSE, selected |-> FALSE]
    /\ InitLocks

\* The task ApplicationView::action_perform_wallpaper of view/application.rs
\* for position index of the list the frame drew: model.lock(), then
\* update_wallpaper. A panic of update_wallpaper ends the task only.
view_action_perform_wallpaper(index, op) ==
    LET r == Application_update_wallpaper(wallpapers, index, op)
        n == NotifyAll(registry, handles, r.published)
    IN  /\ dispatched < MaxDispatch
        /\ index < Len(vmWallpapers)
        /\ dispatched' = dispatched + 1
        /\ UNCHANGED com
        /\ wallpapers' = r.wallpapers
        /\ tasks' = Spawn(tasks, n.calls, ModelViewTaskFor)
        /\ UNCHANGED <<monitors, nextId, crashed, lastOp, prevOp>>
        /\ UNCHANGED <<vmMonitors, vmWallpapers, selected, cache, passes, used, lastFinish, lastSet>>
        /\ UNCHANGED <<locks, threads, queue>>
        /\ UNCHANGED busVars

\* vm_reconstruct_wallpaper_cache, first lock section (view and model
\* locked): the copy of the model's list.
reconstruct_source ==
    /\ tasks["view_update_texture_cache"] > 0
    /\ tasks' = [tasks EXCEPT !["view_update_texture_cache"] = @ - 1]
    /\ passes' = Append(passes, [stage |-> "metadata", source |-> wallpapers,
                                 active |-> {}, unmet |-> <<>>])
    /\ UNCHANGED <<vmMonitors, vmWallpapers, selected, cache, used, lastFinish, lastSet>>
    /\ UNCHANGED <<busVars, modelVars, lockVars, com>>

\* Second lock section of pass k (view locked): the display list is rebuilt.
reconstruct_metadata(k) ==
    LET r == Reconstruct_metadata(passes[k].source, cache)
    IN  /\ k \in 1..Len(passes)
        /\ passes[k].stage = "metadata"
        /\ vmWallpapers' = r.wallpapers
        /\ passes' = [passes EXCEPT ![k] = [stage |-> "load", source |-> @.source,
                                            active |-> r.active, unmet |-> r.unmet]]
        /\ UNCHANGED <<vmMonitors, selected, cache, tasks, used, lastFinish, lastSet>>
        /\ UNCHANGED <<busVars, modelVars, lockVars, com>>

\* One turn of the loading loop of pass k: the file is decoded with no lock
\* held, then the view is locked and the thumbnail stored. A panic of the
\* index expression ends the task; the guard is dropped on the way.
\* lastFinish keeps how the latest turn ended: synced is FALSE after a panic,
\* keys is the id stored under and loaded the (position, filename) stored.
reconstruct_store(k) ==
    LET item == Head(passes[k].unmet)
        r    == Reconstruct_store(vmWallpapers, cache, item)
    IN  /\ k \in 1..Len(passes)
        /\ passes[k].stage = "load"
        /\ passes[k].unmet # <<>>
        /\ vmWallpapers' = r.wallpapers
        /\ cache' = r.cache
        /\ passes' = IF r.panic THEN RemoveAt(passes, k)
                     ELSE [passes EXCEPT ![k].unmet = Tail(@),
                                         ![k].active = @ \cup {r.id}]
        /\ lastFinish' = [NoFinish EXCEPT !.done = TRUE, !.synced = ~r.panic,
                                          !.keys = IF r.panic THEN {} ELSE {r.id},
                                          !.loaded = {item}]
        /\ UNCHANGED <<vmMonitors, selected, tasks, used, lastSet>>
        /\ UNCHANGED <<busVars, modelVars, lockVars, com>>

\* The "Delete unused" section of pass k, once its loop is over.
reconstruct_retain(k) ==
    /\ k \in 1..Len(passes)
    /\ passes[k].stage = "load"
    /\ passes[k].unmet = <<>>
    /\ cache' = {e \in cache : e.uuid \in passes[k].active}
    /\ passes' = RemoveAt(passes, k)
    /\ UNCHANGED <<vmMonitors, vmWallpapers, selected, tasks, used, lastFinish, lastSet>>
    /\ UNCHANGED <<busVars, modelVars, lockVars, com>>

\* The user works on the list from the context menu while the passes the
\* changes trigger go through their lock sections in any order.
NextReconstruct ==
    \/ \E index \in 0..1 : \E op \in OpInputs : view_action_perform_wallpaper(index, op)
    \/ reconstruct_source
    \/ \E k \in 1..Len(passes) : reconstruct_metadata(k)
    \/ \E k \in 1..Len(passes) : reconstruct_store(k)
    \/ \E k \in 1..Len(passes) : reconstruct_retain(k)

SpecReconstruct == InitReconstruct /\ [][NextReconstruct]_vars

\* ------------------------------------------------- the order of the locks

\* A View task that locks the viewmodel before the view.
LockOrderOf_ViewModelFirst(k) ==
    IF k \in {"vm_update_monitors", "vm_update_wallpapers"}
    THEN <<"viewmodel", "model">>
    ELSE <<"viewmodel", "view">>

\* The two mutexes a spawned task locks, in the order of its lock() calls:
\* ApplicationViewModel::update_monitors and update_wallpapers lock this and
\* then viewmodel.model; ApplicationView::update_monitors and the first
\* section of update_texture_cache lock this and then view.viewmodel.
LockOrderOf(k) ==
    IF k \in {"vm_update_monitors", "vm_update_wallpapers"}
    THEN <<"viewmodel", "model">>
    ELSE <<"view", "viewmodel">>

\* The running application with its first monitor selected, the last monitor
\* enumeration still to come; every kind of spawned task has a worker.
InitOrder ==
    /\ registry = <<1>>
    /\ handles = {1}
    /\ nextSub = 2
    /\ dropped = {}
    /\ compacted = FALSE
    /\ lastCalls = <<>>
    /\ lastNotify = NoNotify
    /\ monitors = <<Monitor1>>
    /\ wallpapers = <<>>
    /\ nextId = 1
    /\ crashed = FALSE
    /\ lastOp = NoOp
    /\ prevOp = NoPrev
    /\ vmMonitors = ViewModel_update_monitors(<<Monitor1>>).monitors
    /\ vmWallpapers = <<>>
    /\ selected = Some(0)
    /\ cache = {}
    /\ tasks = NoTasks
    /\ passes = <<>>
    /\ used = [sets |-> MaxSets - 1, updates |-> 0]
    /\ lastFinish = NoFinish
    /\ lastSet = [done |-> TRUE, empty |-> FALSE, selected |-> FALSE]
    /\ locks = [x \in Mutexes |-> "free"]
    /\ threads = [t \in Threads \cup TaskKinds |-> Idle]
    /\ queue = [k \in ActionKinds |-> <<>>]
    /\ dispatched = 0
    /\ com = NoCom

\* A spawned task starts on the pool with its first lock() call.
task_lock_first(k) ==
    /\ ~crashed
    /\ tasks[k] > 0
    /\ At(k, "idle")
    /\ Mutex_lock(k, LockOrderOf(k)[1])
    /\ tasks' = [tasks EXCEPT ![k] = @ - 1]
    /\ locks' = Hold(k, {LockOrderOf(k)[1]})
    /\ threads' = Goto(k, "lock_second", <<>>)
    /\ UNCHANGED <<queue, dispatched, com>>
    /\ UNCHANGED <<vmMonitors, vmWallpapers, selected, cache, passes, used, lastFinish, lastSet>>
    /\ UNCHANGED <<busVars, modelVars>>

\* The second lock() call of task k returns.
SecondLock(k) ==
    /\ At(k, "lock_second")
    /\ Mutex_lock(k, LockOrderOf(k)[2])

\* ApplicationViewModel::update_monitors from viewmodel.model.lock() to its
\* end: the copy of the list, the layout, the notify, both guards dropped.
vm_update_monitors_locked ==
    LET r == ViewModel_update_monitors(monitors)
        n == NotifyAll(ViewRegistry, ViewHandles, r.published)
    IN  /\ SecondLock("vm_update_monitors")
        /\ vmMonitors' = r.monitors
        /\ tasks' = Spawn(tasks, n.calls, ViewTaskFor)
        /\ locks' = Release("vm_update_monitors")
        /\ threads' = Goto("vm_update_monitors", "idle", <<>>)
        /\ UNCHANGED <<queue, dispatched, com>>
        /\ UNCHANGED <<vmWallpapers, selected, cache, passes, used, lastFinish, lastSet>>
        /\ UNCHANGED <<busVars, modelVars>>

\* ApplicationViewModel::update_wallpapers from viewmodel.model.lock() on.
vm_update_wallpapers_locked ==
    LET r == ViewModel_update_wallpapers(wallpapers)
        n == NotifyAll(ViewRegistry, ViewHandles, r.published)
    IN  /\ SecondLock("vm_update_wallpapers")
        /\ vmWallpapers' = r.wallpapers
        /\ tasks' = Spawn(tasks, n.calls, ViewTaskFor)
        /\ passes' = IF r.wallpapers = vmWallpapers THEN passes ELSE Disturbed(passes)
        /\ locks' = Release("vm_update_wallpapers")
        /\ threads' = Goto("vm_update_wallpapers", "idle", <<>>)
        /\ UNCHANGED <<queue, dispatched, com>>
        /\ UNCHANGED <<vmMonitors, selected, cache, used, lastFinish, lastSet>>
        /\ UNCHANGED <<busVars, modelVars>>

\* ApplicationView::update_monitors from viewmodel_ref.lock() on.
view_update_monitors_locked ==
    /\ SecondLock("view_update_monitors")
    /\ selected' = View_update_monitors(vmMonitors)
    /\ locks' = Release("view_update_monitors")
    /\ threads' = Goto("view_update_monitors", "idle", <<>>)
    /\ UNCHANGED <<queue, dispatched, com>>
    /\ UNCHANGED <<vmMonitors, vmWallpapers, cache, tasks, passes, used, lastFinish, lastSet>>
    /\ UNCHANGED <<busVars, modelVars>>

\* update_texture_cache from view.viewmodel.lock() to the end of its first
\* section; the loading loop follows with no lock held.
texture_cache_begin_locked ==
    LET snap == TextureCache_snapshot(vmWallpapers, cache)
    IN  /\ SecondLock("view_update_texture_cache")
        /\ passes' = Append(Disturbed(passes),
                            [active |-> snap.active,
                             unmet  |-> snap.unmet,
                             newly  |-> TextureCache_load(snap.unmet),
                             alone  |-> passes = <<>>])
        /\ locks' = Release("view_update_texture_cache")
        /\ threads' = Goto("view_update_texture_cache", "idle", <<>>)
        /\ UNCHANGED <<queue, dispatched, com>>
        /\ UNCHANGED <<vmMonitors, vmWallpapers, selected, cache, tasks, used, lastFinish, lastSet>>
        /\ UNCHANGED <<busVars, modelVars>>

\* The UI thread, load_monitor_info, the action tasks and the tasks the
\* subscribers spawn, each taking its mutexes one lock() call at a time.
NextOrder ==
    \/ ui_lock_view
    \/ ui_lock_viewmodel
    \/ \E j \in 0..1 : \E act \in FrameActs(j) : ui_draw(j, act)
    \/ monitor_info_lock_model
    \/ \E new \in MonitorLists : monitor_info_set_monitors(new)
    \/ \E k \in ActionKinds : action_lock_viewmodel(k)
    \/ \E picked \in {None, <<"a.png">>} : add_image_dialog(picked)
    \/ \E k \in ActionKinds : action_lock_model(k)
    \/ add_image_add_wallpaper
    \/ perform_update_wallpaper
    \/ \E outcome \in ApplyOutcomes : set_wallpaper_return(outcome)
    \/ \E k \in TaskKinds : task_lock_first(k)
    \/ vm_update_monitors_locked
    \/ vm_update_wallpapers_locked
    \/ view_update_monitors_locked
    \/ texture_cache_begin_locked
    \/ \E k \in 1..Len(passes) : (Free("view") /\ texture_cache_store(k))

SpecOrder == InitOrder /\ [][NextOrder]_vars

\* ------------------------------------------------- comobj.rs, ComLibrary

\* AtomicUsize::fetch_add(1, SeqCst): the value stored, and the value returned,
\* which is the one the counter held before the addition.
fetch_add(c) == [stored |-> c + 1, returned |-> c]

\* AtomicUsize::fetch_sub(1, SeqCst); drop runs on a ComLibrary that new
\* returned, so the counter it finds is at least 1 and does not wrap.
fetch_sub(c) == [stored |-> c - 1, returned |-> c]

\* What CoInitializeEx can answer: a success code, or a failure such as
\* RPC_E_CHANGED_MODE, which HresultErrorExt::err turns into Err.
ComOutcomes == {"ok", "failed"}

\* ComLibrary::new on thread t. It calls initialize_real when the value that
\* fetch_add returned is 1, passes its error on with ?, and otherwise returns
\* a ComLibrary.
ComLibrary_new(t, outcome) ==
    LET c == com[t]
        f == fetch_add(c.count)
        called == f.returned = 1
        failed == called /\ outcome = "failed"
    IN  /\ c.news < MaxNews
        /\ (~called => outcome = "ok")
        /\ com' = [com EXCEPT ![t] =
                     [count |-> f.stored,
                      live |-> IF failed THEN c.live ELSE c.live + 1,
                      initialized |-> IF called /\ ~failed
                                      THEN c.initialized + 1 ELSE c.initialized,
                      news |-> c.news + 1,
                      last |-> [op |-> "new", before |-> c.live, called |-> called]]]
        /\ UNCHANGED <<busVars, modelVars, pipeVars, lockVars>>

\* Drop of one ComLibrary of thread t: CoUninitialize when the value that
\* fetch_sub returned is 0.
ComLibrary_drop(t) ==
    LET c == com[t]
        f == fetch_sub(c.count)
        called == f.returned = 0
    IN  /\ c.live > 0
        /\ com' = [com EXCEPT ![t] =
                     [count |-> f.stored,
                      live |-> c.live - 1,
                      initialized |-> IF called /\ c.initialized > 0
                                      THEN c.initialized - 1 ELSE c.initialized,
                      news |-> c.news,
                      last |-> [op |-> "drop", before |-> c.live, called |-> called]]]
        /\ UNCHANGED <<busVars, modelVars, pipeVars, lockVars>>

NextCom ==
    \/ \E t \in ComThreads : \E outcome \in ComOutcomes : ComLibrary_new(t, outcome)
    \/ \E t \in ComThreads : ComLibrary_drop(t)

SpecCom == InitModel /\ [][NextCom]_vars

\* ---------------------------------------------------------------- claims

CalledSubs == {lastCalls[i].sub : i \in 1..Len(lastCalls)}

\* C1: a notify issued after the Subscription handle of a callback was
\* dropped never invokes that callback, and the notify still runs to its end:
\* the expired entry is skipped, so every live subscriber registered behind an
\* expired entry is still invoked.
Inv_C1_DroppedNeverInvoked ==
    lastNotify.done =>
        /\ CalledSubs \cap lastNotify.dropped = {}
        /\ \A i \in 1..Len(lastNotify.before) :
              \A j \in 1..Len(lastNotify.before) :
                 ( /\ i < j
                   /\ lastNotify.before[i] \in lastNotify.dropped
                   /\ lastNotify.before[j] \in lastNotify.live )
                 => lastNotify.before[j] \in CalledSubs

\* A notify met an expired entry that was registered before a live one.
Wit_C1 ==
    /\ lastNotify.done
    /\ \E i \in 1..Len(lastNotify.before) :
          \E j \in 1..Len(lastNotify.before) :
             /\ i < j
             /\ lastNotify.before[i] \in lastNotify.dropped
             /\ lastNotify.before[j] \in lastNotify.live

\* C2: within one notify(message) every subscriber whose handle is alive is
\* invoked exactly once with that message, in registration order (ids number
\* the registrations), also when the registry was compacted before.
Inv_C2_LiveOnceInOrder ==
    lastNotify.done =>
        /\ \A s \in lastNotify.live :
              Cardinality({i \in 1..Len(lastCalls) : lastCalls[i].sub = s}) = 1
        /\ \A i \in 1..Len(lastCalls) : lastCalls[i].msg = lastNotify.msg
        /\ \A i \in 1..Len(lastCalls) :
              \A j \in 1..Len(lastCalls) :
                 i < j => lastCalls[i].sub < lastCalls[j].sub

\* A notify that invoked two subscribers after an earlier compaction.
Wit_C2 ==
    /\ lastNotify.done
    /\ lastNotify.compactedBefore
    /\ Len(lastCalls) >= 2

UpdateKinds == {"Remove", "MoveUp", "MoveDown", "SetFitting"}

\* The latest operation addressed an element of the list.
LastInRange == lastOp.index < Len(lastOp.before)

\* C5: update_wallpaper(i, Remove) with 0 <= i < len makes the list one
\* shorter, removes exactly the element that was at index i and keeps the
\* others in order: those before i stay, those after i move down by one.
Inv_C5_RemoveKeepsOrder ==
    (lastOp.kind = "Remove" /\ LastInRange) =>
        /\ ~crashed
        /\ Len(wallpapers) = Len(lastOp.before) - 1
        /\ \A k \in 1..Len(wallpapers) :
              wallpapers[k] = IF k <= lastOp.index THEN lastOp.before[k]
                              ELSE lastOp.before[k + 1]

\* The first of three wallpapers was removed.
Wit_C5 ==
    /\ lastOp.kind = "Remove"
    /\ lastOp.index = 0
    /\ Len(lastOp.before) = 3
    /\ Len(wallpapers) = 2

\* C6 as stated: MoveUp at an index followed by MoveDown at the same index
\* restores the list, for every list of at least 2 items and valid index.
Inv_C6_SameIndexRoundTrip ==
    ( /\ prevOp.kind = "MoveUp"
      /\ lastOp.kind = "MoveDown"
      /\ lastOp.index = prevOp.index
      /\ Len(prevOp.before) >= 2
      /\ prevOp.index < Len(prevOp.before) )
    => (~crashed /\ wallpapers = prevOp.before)

\* C6 amended: MoveUp at index i >= 1 followed by MoveDown at index i - 1
\* (the position the moved element now has) restores the list.
Inv_C6_MoveUpThenDownRestores ==
    ( /\ prevOp.kind = "MoveUp"
      /\ lastOp.kind = "MoveDown"
      /\ prevOp.index >= 1
      /\ lastOp.index = prevOp.index - 1
      /\ Len(prevOp.before) >= 2
      /\ prevOp.index < Len(prevOp.before) )
    => (~crashed /\ wallpapers = prevOp.before)

\* The last of three wallpapers was moved up and then down again.
Wit_C6 ==
    /\ prevOp.kind = "MoveUp"
    /\ lastOp.kind = "MoveDown"
    /\ prevOp.index = 2
    /\ lastOp.index = 1
    /\ Len(prevOp.before) = 3
    /\ lastOp.before # prevOp.before

\* C7: update_wallpaper(0, MoveUp) leaves the list as it was (elements,
\* order, fittings) and does not fail, on every list, the empty one included.
Inv_C7_MoveUpAtTop ==
    (lastOp.kind = "MoveUp" /\ lastOp.index = 0) =>
        (~crashed /\ wallpapers = lastOp.before)

\* MoveUp was applied to the first of at least two wallpapers.
Wit_C7 ==
    /\ lastOp.kind = "MoveUp"
    /\ lastOp.index = 0
    /\ Len(lastOp.before) >= 2

\* MoveUp was applied at index 0 of the empty list.
Wit_C7_Empty ==
    /\ lastOp.kind = "MoveUp"
    /\ lastOp.index = 0
    /\ lastOp.before = <<>>
    /\ ~crashed

\* C8: update_wallpaper(len - 1, MoveDown) on a non-empty list leaves the
\* list as it was and does not fail.
Inv_C8_MoveDownAtBottom ==
    ( /\ lastOp.kind = "MoveDown"
      /\ Len(lastOp.before) >= 1
      /\ lastOp.index = Len(lastOp.before) - 1 )
    => (~crashed /\ wallpapers = lastOp.before)

\* MoveDown was applied to the last of at least two wallpapers.
Wit_C8 ==
    /\ lastOp.kind = "MoveDown"
    /\ Len(lastOp.before) >= 2
    /\ lastOp.index = Len(lastOp.before) - 1

\* C9: every update_wallpaper call that returns makes exactly one notify
\* call, with WallpapersUpdated, when the list already has its new content,
\* and each live subscriber of the model is invoked exactly once with it;
\* this includes the moves at a boundary that change nothing.
Inv_C9_UpdateAlwaysPublishes ==
    (lastOp.kind \in UpdateKinds /\ ~crashed) =>
        /\ Len(lastOp.published) = 1
        /\ lastOp.published[1].msg = "WallpapersUpdated"
        /\ lastOp.published[1].seen = wallpapers
        /\ \A s \in handles :
              Cardinality({i \in 1..Len(lastCalls) : lastCalls[i].sub = s}) = 1
        /\ \A i \in 1..Len(lastCalls) : lastCalls[i].msg = "WallpapersUpdated"

\* A boundary move that changed nothing was published to the subscriber.
Wit_C9 ==
    /\ lastOp.kind = "MoveDown"
    /\ Len(lastOp.before) >= 2
    /\ lastOp.index = Len(lastOp.before) - 1
    /\ wallpapers = lastOp.before
    /\ lastCalls = <<[sub |-> 1, msg |-> "WallpapersUpdated"]>>

\* C3: when one update_texture_cache pass runs from its snapshot to its end
\* with no change of a wallpaper list and no other pass in between, the keys
\* of the thumbnail cache are then exactly the ids of the wallpaper list it
\* reconciles against (the ViewModel's list, which is the model's list when
\* no rebuild is pending): every id has an entry, a placeholder when the
\* file did not decode, and no other key remains.
Inv_C3_UndisturbedPassReconciles ==
    (lastFinish.done /\ lastFinish.alone) =>
        /\ lastFinish.keys = lastFinish.listIds
        /\ lastFinish.synced => lastFinish.keys = lastFinish.modelIds
        /\ \A e \in lastFinish.loaded : e.uuid \in lastFinish.keys

\* An undisturbed pass finished after a wallpaper was removed and stored a
\* placeholder for a file that did not decode.
Wit_C3 ==
    /\ lastFinish.done
    /\ lastFinish.alone
    /\ lastFinish.synced
    /\ nextId - 1 > Cardinality(lastFinish.keys)
    /\ \E e \in lastFinish.loaded : ~e.decoded

\* C4: for any interleaving of wallpaper mutations and of the passes they
\* trigger, once no task is pending and every started pass has finished, the
\* keys of the thumbnail cache are the ids of the final wallpaper list.
Inv_C4_QuiescentCacheMatchesList ==
    Quiescent => CacheKeys(cache) = Ids(wallpapers)

\* C10: when set_monitors was called with an empty list while a monitor was
\* selected, then once the tasks triggered by that call have run the view's
\* selected monitor index is none.
Inv_C10_EmptyListClearsSelection ==
    (Quiescent /\ ~crashed /\ lastSet.done /\ lastSet.empty /\ lastSet.selected)
        => selected = None

\* C11: when set_monitors was called with a non-empty list (after an empty
\* list or in place of another one, whatever monitor was selected), the step
\* with which the last task triggered by the call finishes leaves the selected
\* monitor index at 0.
Prop_C11_NonEmptyListSelectsFirst ==
    [][(~Quiescent /\ Quiescent' /\ lastSet.done /\ ~lastSet.empty)
          => selected' = Some(0)]_vars

\* A two-monitor list replaced a list in which a monitor was selected, and
\* the tasks of the replacement have run.
Wit_C11 ==
    /\ Quiescent
    /\ ~crashed
    /\ lastSet.done /\ ~lastSet.empty /\ lastSet.selected
    /\ Len(monitors) = 2
    /\ Len(vmMonitors) = 2
    /\ used.sets >= 2
    /\ selected = Some(0)

\* C12: for a non-empty list of monitors with integer positions, negative
\* ones included, and integer sizes, every preview rect (left, top, right,
\* bottom) of the layout has both corners inside the unit square:
\* 0 <= left <= right <= 1 and 0 <= top <= bottom <= 1.
Inv_C12_RectsInUnitSquare ==
    \A k \in 1..Len(vmMonitors) :
        LET r == vmMonitors[k].preview_rect
        IN  /\ F32Le(F32Zero, r[1]) /\ F32Le(r[1], r[3]) /\ F32Le(r[3], F32One)
            /\ F32Le(F32Zero, r[2]) /\ F32Le(r[2], r[4]) /\ F32Le(r[4], F32One)

\* Two monitors, one at a negative position, laid out with a coordinate
\* that f32 holds only rounded.
Wit_C12 ==
    /\ Len(vmMonitors) = 2
    /\ \E k \in 1..2 : vmMonitors[k].position[1] < 0 /\ vmMonitors[k].position[2] < 0
    /\ \E k \in 1..2 : vmMonitors[k].preview_rect[3].e >= SignificandBits

\* C13: on every axis whose bounding-box extent equals divider, the larger
\* extent, some preview rect has its low coordinate equal to 0 and some
\* preview rect has its high coordinate equal to 1.
Inv_C13_DividerAxisTouchesEdges ==
    vmMonitors # <<>> =>
        \A axis \in 1..2 :
            WholeBox(monitors).whole_size[axis] = WholeBox(monitors).divider =>
                /\ \E k \in 1..Len(vmMonitors) :
                      vmMonitors[k].preview_rect[axis] = F32Zero
                /\ \E k \in 1..Len(vmMonitors) :
                      vmMonitors[k].preview_rect[axis + 2] = F32One

\* Two monitors side by side: the horizontal axis is a divider axis, and the
\* right edge that reaches 1 is the sum of two rounded quotients.
Wit_C13 ==
    /\ Len(vmMonitors) = 2
    /\ WholeBox(monitors).whole_size[1] = WholeBox(monitors).divider
    /\ \E k \in 1..2 :
          /\ vmMonitors[k].preview_rect[3] = F32One
          /\ vmMonitors[k].preview_rect[1].e >= SignificandBits

\* The f32 nearest to n / d.
Nearest(n, d) == F32Div(I32ToF32(n), I32ToF32(d))

\* The spacing of the f32 values between 1/2 and 1.
UnitInLastPlace == [m |-> 1, e |-> SignificandBits]

\* v is n / d up to the rounding of f32 arithmetic.
Approx(v, n, d) ==
    /\ F32Le(F32Sub(Nearest(n, d), UnitInLastPlace), v)
    /\ F32Le(v, F32Add(Nearest(n, d), UnitInLastPlace))

\* C14, as stated: for the monitors at (0,0) size (1920,1080) and (1920,0)
\* size (1280,1024) the bounding box is (0,0,3200,1080), divider 3200, offset
\* (0,1060), and the first preview rect is (0, 0.33125, 0.6, 0.6625).
Inv_C14_ScenarioAsStated ==
    (monitors = <<Monitor1, Monitor2>> /\ vmMonitors # <<>>) =>
        /\ WholeBox(monitors).whole_topleft = <<I32ToF32(0), I32ToF32(0)>>
        /\ WholeBox(monitors).right_all = I32ToF32(3200)
        /\ WholeBox(monitors).bottom_all = I32ToF32(1080)
        /\ WholeBox(monitors).divider = I32ToF32(3200)
        /\ WholeBox(monitors).whole_offset = <<I32ToF32(0), I32ToF32(1060)>>
        /\ vmMonitors[1].preview_rect[1] = F32Zero
        /\ Approx(vmMonitors[1].preview_rect[2], 53, 160)
        /\ Approx(vmMonitors[1].preview_rect[3], 3, 5)
        /\ Approx(vmMonitors[1].preview_rect[4], 53, 80)

\* C14, amended: the same bounding box, divider and offset, and the first
\* preview rect is (0, 0.33125, 0.6, 0.66875) up to the rounding of f32.
Inv_C14_Scenario ==
    (monitors = <<Monitor1, Monitor2>> /\ vmMonitors # <<>>) =>
        /\ WholeBox(monitors).whole_topleft = <<I32ToF32(0), I32ToF32(0)>>
        /\ WholeBox(monitors).right_all = I32ToF32(3200)
        /\ WholeBox(monitors).bottom_all = I32ToF32(1080)
        /\ WholeBox(monitors).divider = I32ToF32(3200)
        /\ WholeBox(monitors).whole_offset = <<I32ToF32(0), I32ToF32(1060)>>
        /\ vmMonitors[1].preview_rect[1] = F32Zero
        /\ Approx(vmMonitors[1].preview_rect[2], 53, 160)
        /\ Approx(vmMonitors[1].preview_rect[3], 3, 5)
        /\ Approx(vmMonitors[1].preview_rect[4], 107, 160)

\* The layout of the two-monitor desktop has been computed.
Wit_C14 ==
    /\ monitors = <<Monitor1, Monitor2>>
    /\ Len(vmMonitors) = 2
    /\ vmMonitors[1].size = <<1920, 1080>>

\* C15: a pass in which the file of an unmet wallpaper does not decode still
\* completes, and its last section leaves an entry for every unmet id of the
\* pass: a placeholder thumbnail with original size (0, 0) for the file that
\* failed, the decoded image for every other one. The pass removes no
\* wallpaper from a list.
Prop_C15_DecodeFailureKeepsBatch ==
    [][\A k \in 1..Len(passes) :
          texture_cache_store(k) =>
              /\ \A u \in passes[k].unmet :
                    \E e \in cache' :
                       /\ e.uuid = u.uuid
                       /\ e.decoded = Decodes(u.filename)
                       /\ ~Decodes(u.filename) =>
                             /\ e.original_size = <<0, 0>>
                             /\ e.rect_size = PlaceholderSide
                       /\ Decodes(u.filename) =>
                             e.original_size = ImageSize(u.filename)
              /\ Len(passes') = Len(passes) - 1
              /\ wallpapers' = wallpapers
              /\ vmWallpapers' = vmWallpapers]_vars

\* One pass loaded a file that decodes and a file that does not, and has
\* stored both; both wallpapers are still listed.
Wit_C15 ==
    /\ lastFinish.done
    /\ \E e \in lastFinish.loaded : ~e.decoded /\ e \in cache
    /\ \E e \in lastFinish.loaded : e.decoded /\ e \in cache
    /\ Len(wallpapers) = 2
    /\ Len(vmWallpapers) = 2

\* The latest operation invoked every live subscriber exactly once, with msg,
\* and with nothing else.
DeliveredOnce(calls, msg) ==
    /\ \A s \in handles :
          Cardinality({i \in 1..Len(calls) : calls[i].sub = s}) = 1
    /\ \A i \in 1..Len(calls) : calls[i].msg = msg

\* C18: add_wallpaper(w) makes w the last element of the wallpaper list and
\* the list one longer, leaves every earlier element at its position, leaves
\* the monitor list unchanged and publishes WallpapersUpdated exactly once.
Prop_C18_AddAppends ==
    [][lastOp'.kind = "add_wallpaper" =>
          \A f \in Paths :
             add_wallpaper(f) =>
              /\ Len(wallpapers') = Len(wallpapers) + 1
              /\ wallpapers'[Len(wallpapers')] =
                    Wallpaper_new(nextId, f, DefaultFitting)
              /\ \A k \in 1..Len(wallpapers) : wallpapers'[k] = wallpapers[k]
              /\ monitors' = monitors
              /\ Len(lastOp'.published) = 1
              /\ lastOp'.published[1].msg = "WallpapersUpdated"
              /\ DeliveredOnce(lastCalls', "WallpapersUpdated")]_vars

\* A third wallpaper was added behind two that had been reordered, with two
\* monitors known.
Wit_C18 ==
    /\ lastOp.kind = "add_wallpaper"
    /\ Len(lastOp.before) = 2
    /\ lastOp.before[1].uuid = 2
    /\ Len(wallpapers) = 3
    /\ Len(monitors) = 2
    /\ Len(lastCalls) = 1

\* C19: set_monitors(new_list) makes the monitor list new_list, whatever it
\* held before, leaves the wallpaper list unchanged, and publishes
\* MonitorsUpdated exactly once and no WallpapersUpdated.
Prop_C19_SetMonitorsReplaces ==
    [][lastOp'.kind = "set_monitors" =>
          \A new \in MonitorLists :
             set_monitors(new) =>
              /\ monitors' = new
              /\ wallpapers' = wallpapers
              /\ Len(lastOp'.published) = 1
              /\ lastOp'.published[1].msg = "MonitorsUpdated"
              /\ DeliveredOnce(lastCalls', "MonitorsUpdated")]_vars

\* A one-monitor list has replaced another list, with wallpapers present.
Wit_C19 ==
    /\ lastOp.kind = "set_monitors"
    /\ monitors = <<Monitor1>>
    /\ Len(wallpapers) = 2
    /\ Len(lastCalls) = 1
    /\ lastCalls[1].msg = "MonitorsUpdated"

\* C20: apply_wallpaper_for_monitor(monitor_index, wallpaper_index) with
\* valid indices returns Ok when the wallpaper-setting collaborator succeeds
\* and Err when it fails, and in both cases leaves the monitor list and the
\* wallpaper list unchanged and publishes no event.
Prop_C20_ApplyIsPure ==
    [][lastOp'.kind = "apply_wallpaper_for_monitor" =>
       \A mi \in 0..(Len(monitors) - 1) : \A wi \in 0..(Len(wallpapers) - 1) :
          \A outcome \in ApplyOutcomes :
             apply_wallpaper_for_monitor(mi, wi, outcome) =>
                 /\ lastOp'.result = IF outcome = "Ok" THEN "Ok" ELSE "Err"
                 /\ ~crashed'
                 /\ monitors' = monitors
                 /\ wallpapers' = wallpapers
                 /\ lastOp'.published = <<>>
                 /\ lastCalls' = <<>>
                 /\ registry' = registry]_vars

\* The collaborator failed to set the second wallpaper on the second monitor.
Wit_C20 ==
    /\ lastOp.kind = "apply_wallpaper_for_monitor"
    /\ lastOp.result = "Err"
    /\ lastOp.index = 1
    /\ Len(monitors) = 2
    /\ Len(wallpapers) = 2
    /\ ~crashed

\* The collaborator set a wallpaper.
Wit_C20_Ok ==
    /\ lastOp.kind = "apply_wallpaper_for_monitor"
    /\ lastOp.result = "Ok"
    /\ ~crashed

\* C16: when set_monitors, add_wallpaper or update_wallpaper invoke the
\* subscribers, the notifying thread does not hold the mutex of the
\* Application object itself, so that a subscriber locking the Application in
\* its callback would not deadlock.
Inv_C16_NotifierHoldsNoModelLock ==
    \A t \in Threads :
        threads[t].at \in {"set_monitors", "add_wallpaper", "update_wallpaper"}
            => locks["model"] # t

\* C17: the per-frame update of ApplicationView never waits on a lock that a
\* worker holds while it is inside the file-picker dialog, an image decode
\* or the OS wallpaper-setting call.
Inv_C17_FrameNeverWaitsOnBlockingWorker ==
    ~ \E t \in ActionKinds :
         /\ At("ui", "lock_viewmodel")
         /\ locks["viewmodel"] = t
         /\ threads[t].at \in {"dialog", "os_call"}

\* The list after the latest move is the list before it with the elements at
\* code positions a and b exchanged and every other position as it was.
ExchangedAt(a, b) ==
    /\ ~crashed
    /\ Len(wallpapers) = Len(lastOp.before)
    /\ wallpapers[a + 1] = lastOp.before[b + 1]
    /\ wallpapers[b + 1] = lastOp.before[a + 1]
    /\ \A k \in 1..Len(wallpapers) :
          (k # a + 1 /\ k # b + 1) => wallpapers[k] = lastOp.before[k]

\* C21: a move that is not at a boundary exchanges exactly two neighbours:
\* update_wallpaper(i, MoveDown) with i + 1 < len swaps the elements at i and
\* i + 1, update_wallpaper(i, MoveUp) with 0 < i < len swaps the elements at i
\* and i - 1, and every other position keeps its element; on the list [A, B],
\* update_wallpaper(0, MoveDown) gives [B, A].
Inv_C21_MoveSwapsNeighbours ==
    /\ (lastOp.kind = "MoveDown" /\ lastOp.index + 1 < Len(lastOp.before))
          => ExchangedAt(lastOp.index, lastOp.index + 1)
    /\ (lastOp.kind = "MoveUp" /\ 0 < lastOp.index
                               /\ lastOp.index < Len(lastOp.before))
          => ExchangedAt(lastOp.index, lastOp.index - 1)
    /\ (lastOp.kind = "MoveDown" /\ lastOp.index = 0 /\ Len(lastOp.before) = 2)
          => wallpapers = <<lastOp.before[2], lastOp.before[1]>>

\* The middle one of three wallpapers was moved up, which left the third in
\* place and the list different from what it was.
Wit_C21 ==
    /\ lastOp.kind = "MoveUp"
    /\ lastOp.index = 1
    /\ Len(lastOp.before) = 3
    /\ wallpapers # lastOp.before
    /\ wallpapers[3] = lastOp.before[3]

\* A then B were added and MoveDown was applied at index 0.
Wit_C21_Scenario ==
    /\ lastOp.kind = "MoveDown"
    /\ lastOp.index = 0
    /\ Len(lastOp.before) = 2
    /\ lastOp.before[1].uuid = 1
    /\ lastOp.before[2].uuid = 2
    /\ wallpapers[1].uuid = 2
    /\ wallpapers[2].uuid = 1

\* C22: when the add-image action gets no path from the file picker (the user
\* cancelled), the action returns success, the wallpaper list is unchanged and
\* no WallpapersUpdated is published: no subscriber is invoked and no rebuild
\* of the display list is spawned.
Prop_C22_CancelIsNoOp ==
    [][(lastOp'.kind = "action_add_image" /\ add_image_task(None)) =>
          /\ lastOp'.result = "Ok"
          /\ wallpapers' = wallpapers
          /\ nextId' = nextId
          /\ lastOp'.published = <<>>
          /\ lastCalls' = <<>>
          /\ tasks' = tasks
          /\ ~crashed']_vars

\* The dialog was cancelled with one wallpaper in the list, after the add of
\* that wallpaper had been published.
Wit_C22 ==
    /\ lastOp.kind = "action_add_image"
    /\ lastOp.published = <<>>
    /\ lastOp.result = "Ok"
    /\ Len(lastOp.before) = 1
    /\ wallpapers = lastOp.before
    /\ lastCalls = <<>>
    /\ lastNotify.done

\* A step of the wallpaper side: a mutation of the model's wallpaper list, the
\* rebuild of the display list, or a section of a reconciliation pass.
WallpaperStep ==
    \/ wallpapers' # wallpapers
    \/ vmWallpapers' # vmWallpapers
    \/ cache' # cache
    \/ passes' # passes
    \/ tasks'["vm_update_wallpapers"] # tasks["vm_update_wallpapers"]
    \/ tasks'["view_update_texture_cache"] # tasks["view_update_texture_cache"]

\* C23: no wallpaper operation, and nothing it triggers, changes the monitor
\* list, the monitor preview list or the selected monitor, or starts a task of
\* the monitor side, or ends the run; and once the list is empty and its
\* rebuild has run, the wallpaper display list is empty.
Prop_C23_WallpapersLeaveMonitorsAlone ==
    [][/\ WallpaperStep =>
             /\ monitors' = monitors
             /\ vmMonitors' = vmMonitors
             /\ selected' = selected
             /\ crashed' = crashed
             /\ tasks'["vm_update_monitors"] = tasks["vm_update_monitors"]
             /\ tasks'["view_update_monitors"] = tasks["view_update_monitors"]
       /\ (wallpapers' = <<>> /\ tasks'["vm_update_wallpapers"] = 0)
             => vmWallpapers' = <<>>]_vars

\* With the second of two monitors selected, the only wallpaper was removed
\* and the display list was rebuilt: the selection is where it was.
Wit_C23 ==
    /\ nextId > 1
    /\ wallpapers = <<>>
    /\ vmWallpapers = <<>>
    /\ tasks["vm_update_wallpapers"] = 0
    /\ Len(monitors) = 2
    /\ Len(vmMonitors) = 2
    /\ selected = Some(1)
    /\ ~crashed

\* Position of subscriber s in the registry reg.
PositionIn(reg, s) == CHOOSE i \in 1..Len(reg) : reg[i] = s

\* C24: if at least one registered subscriber was found expired while notify
\* visited the registry, then when notify returns the registry holds exactly
\* the entries that are still alive, each once, in their original relative
\* order; if none was found expired, the registry is unchanged. No live
\* subscriber is ever removed by a compaction.
Prop_C24_CompactionKeepsTheLive ==
    [][(\E msg \in ApplicationEvent : notify(msg)) =>
          LET alive == {i \in 1..Len(registry) : registry[i] \in handles}
          IN  /\ (alive # 1..Len(registry)) =>
                    /\ {registry'[j] : j \in 1..Len(registry')}
                          = {registry[i] : i \in alive}
                    /\ Len(registry') = Cardinality(alive)
                    /\ \A j \in 1..Len(registry') : \A k \in 1..Len(registry') :
                          j < k => PositionIn(registry, registry'[j])
                                      < PositionIn(registry, registry'[k])
              /\ (alive = 1..Len(registry)) => registry' = registry
              /\ \A i \in alive :
                    \E j \in 1..Len(registry') : registry'[j] = registry[i]]_vars

\* A notify met an expired entry between two live ones and left the two.
Wit_C24 ==
    /\ lastNotify.done
    /\ lastNotify.before = <<1, 2, 3>>
    /\ lastNotify.live = {1, 3}
    /\ registry = <<1, 3>>
    /\ handles = {1, 3}

\* C25: when the monitor enumeration collaborator fails (at its construction
\* or at the enumeration), load_monitor_info returns that error without
\* calling set_monitors: the model's monitor list and wallpaper list are
\* unchanged, no MonitorsUpdated is published (no subscriber runs, no task is
\* spawned), and the run goes on.
Prop_C25_EnumerationFailureChangesNothing ==
    [][(/\ lastOp'.kind = "load_monitor_info"
        /\ \E outcome \in EnumerateOutcomes \ {"Ok"} : \E new \in MonitorLists :
              load_monitor_info_task(outcome, new)) =>
          /\ lastOp'.result = "Err"
          /\ monitors' = monitors
          /\ wallpapers' = wallpapers
          /\ lastOp'.published = <<>>
          /\ lastCalls' = <<>>
          /\ tasks' = tasks
          /\ vmMonitors' = vmMonitors
          /\ selected' = selected
          /\ ~crashed']_vars

\* The enumeration failed with two monitors known and shown, the first one
\* selected, and a wallpaper in the list.
Wit_C25 ==
    /\ lastOp.kind = "load_monitor_info"
    /\ lastOp.result = "Err"
    /\ lastOp.published = <<>>
    /\ monitors = <<Monitor1, Monitor2>>
    /\ Len(vmMonitors) = 2
    /\ selected = Some(0)
    /\ Len(wallpapers) >= 1
    /\ ~crashed

\* The wallpapers of list ws, as a set.
Elements(ws) == {ws[k] : k \in 1..Len(ws)}

\* C26: after any sequence of add_wallpaper and update_wallpaper operations
\* the ids of the wallpapers in the list are pairwise distinct; no operation
\* changes the id of a wallpaper that was in the list (the wallpapers that
\* stay keep id and path, a new one gets an id no other has); and MoveUp,
\* MoveDown and SetFitting keep the set of ids, the list after a move being a
\* permutation of the list before.
Inv_C26_IdsUniqueAndStable ==
    /\ \A i \in 1..Len(wallpapers) : \A j \in 1..Len(wallpapers) :
          i # j => wallpapers[i].uuid # wallpapers[j].uuid
    /\ lastOp.kind = "add_wallpaper" =>
          /\ SubSeq(wallpapers, 1, Len(lastOp.before)) = lastOp.before
          /\ wallpapers[Len(wallpapers)].uuid \notin Ids(lastOp.before)
    /\ lastOp.kind = "Remove" => Elements(wallpapers) \subseteq Elements(lastOp.before)
    /\ lastOp.kind \in {"MoveUp", "MoveDown"} =>
          /\ Len(wallpapers) = Len(lastOp.before)
          /\ Elements(wallpapers) = Elements(lastOp.before)
    /\ lastOp.kind = "SetFitting" =>
          /\ Len(wallpapers) = Len(lastOp.before)
          /\ \A k \in 1..Len(wallpapers) :
                /\ wallpapers[k].uuid = lastOp.before[k].uuid
                /\ wallpapers[k].filename = lastOp.before[k].filename
    /\ lastOp.kind \in {"MoveUp", "MoveDown", "SetFitting"} =>
          Ids(wallpapers) = Ids(lastOp.before)

\* After three wallpapers were created and one of them removed, a move
\* changed the order of the two that are left.
Wit_C26 ==
    /\ nextId = 4
    /\ Len(wallpapers) = 2
    /\ lastOp.kind \in {"MoveUp", "MoveDown"}
    /\ wallpapers # lastOp.before
    /\ Ids(wallpapers) = Ids(lastOp.before)
    /\ ~crashed

\* C27: update_wallpaper(i, SetFitting(f)) with 0 <= i < len sets the fitting
\* of the element at index i to f and changes nothing else: the length, the
\* order, the id and the path of every element, and the fitting of every
\* other element, are unchanged.
Inv_C27_SetFittingTouchesOneField ==
    (lastOp.kind = "SetFitting" /\ LastInRange) =>
        /\ ~crashed
        /\ Len(wallpapers) = Len(lastOp.before)
        /\ wallpapers[lastOp.index + 1].fitting = lastOp.fitting
        /\ \A k \in 1..Len(wallpapers) :
              /\ wallpapers[k].uuid = lastOp.before[k].uuid
              /\ wallpapers[k].filename = lastOp.before[k].filename
              /\ k # lastOp.index + 1 =>
                    wallpapers[k].fitting = lastOp.before[k].fitting

\* The fitting of the middle one of three wallpapers went from Cover to
\* Tile, next to one that already had Tile and one that keeps Cover.
Wit_C27 ==
    /\ lastOp.kind = "SetFitting"
    /\ lastOp.index = 1
    /\ Len(lastOp.before) = 3
    /\ lastOp.before[2].fitting = "Cover"
    /\ wallpapers[2].fitting = "Tile"
    /\ wallpapers[1].fitting = "Tile"
    /\ wallpapers[3].fitting = "Cover"

\* A pass took its snapshot in this step.
PassBegins == Len(passes') = Len(passes) + 1

\* A pass ran its last section in this step.
PassEnds == Len(passes') = Len(passes) - 1

\* C28: a reconciliation pass triggered by MoveUp, MoveDown or SetFitting,
\* starting from a cache whose key set equals the id set of the list, decodes
\* no file (nothing is unmet, nothing is loaded) and leaves the thumbnail
\* cache unchanged, same keys and same entries, placeholders included.
Prop_C28_ReorderKeepsCache ==
    [][/\ (PassBegins /\ CacheKeys(cache) = Ids(wallpapers)) =>
             /\ passes'[Len(passes')].unmet = {}
             /\ passes'[Len(passes')].newly = {}
       /\ PassEnds => (cache' = cache /\ CacheKeys(cache') = Ids(wallpapers'))
       /\ cache' = cache]_vars

\* A pass that a move triggered has finished: the display list has the
\* order the move left, which is not the order the cache was filled in.
Wit_C28 ==
    /\ lastOp.kind \in {"MoveUp", "MoveDown"}
    /\ wallpapers # lastOp.before
    /\ lastFinish.done
    /\ Quiescent
    /\ vmWallpapers # ViewModel_update_wallpapers(ReorderList).wallpapers
    /\ CacheKeys(cache) = Ids(wallpapers)
    /\ \E e \in cache : ~e.decoded

\* The ids whose files pass p has decoded (or replaced by a placeholder).
DecodedBy(p) == {e.uuid : e \in p.newly}

\* C29: no redundant decode: under any interleaving of wallpaper mutations
\* and reconciliation passes the file of a wallpaper id is decoded at most
\* once while that wallpaper stays in the list. Ids are never reused, so a
\* wallpaper that is in the list has stayed in it since it was added: no two
\* passes in flight have both decoded the file of such a wallpaper.
Inv_C29_NoRedundantDecode ==
    \A j \in 1..Len(passes) : \A k \in 1..Len(passes) :
        j # k => (DecodedBy(passes[j]) \cap DecodedBy(passes[k]))
                    \cap Ids(wallpapers) = {}

\* The fitting the wallpaper with id u has in list ws.
FittingOf(ws, u) == (CHOOSE w \in Elements(ws) : w.uuid = u).fitting

\* C30: a wallpaper action dispatched by the UI carries the list position i
\* the frame rendered and is applied to whatever element is at position i
\* when its worker task has the model: that element is the one removed, moved
\* or given the fitting, also when it is not the wallpaper the user saw at i,
\* and the wallpaper the user saw is then left as it was; a position that is
\* no longer in the list reaches update_wallpaper as it is, where Remove,
\* SetFitting and MoveUp (above position 0) panic in the worker and MoveDown
\* does nothing.
Inv_C30_ActionHitsPosition ==
    (threads["perform"].args # <<>> /\ lastOp.kind # "none") =>
        LET i      == threads["perform"].args[1]
            op     == threads["perform"].args[2]
            seen   == threads["perform"].args[3]
            before == lastOp.before
        IN  /\ lastOp.index = i
            /\ lastOp.kind = op.kind
            /\ ~crashed
            /\ (i < Len(before) /\ op.kind = "Remove") =>
                  /\ Ids(before) \ Ids(wallpapers) = {before[i + 1].uuid}
                  /\ (seen # before[i + 1].uuid /\ seen \in Ids(before))
                        => seen \in Ids(wallpapers)
            /\ (i < Len(before) /\ op.kind = "SetFitting") =>
                  /\ wallpapers[i + 1].uuid = before[i + 1].uuid
                  /\ wallpapers[i + 1].fitting = op.fitting
                  /\ (seen # before[i + 1].uuid /\ seen \in Ids(before))
                        => FittingOf(wallpapers, seen) = FittingOf(before, seen)
            /\ (i < Len(before) /\ op.kind = "MoveUp" /\ i > 0) =>
                  wallpapers[i].uuid = before[i + 1].uuid
            /\ (op.kind = "MoveDown" /\ i + 1 < Len(before)) =>
                  wallpapers[i + 2].uuid = before[i + 1].uuid
            /\ (i >= Len(before) /\ (op.kind \in {"Remove", "SetFitting"}
                                        \/ (op.kind = "MoveUp" /\ i > 0))) =>
                  /\ lastOp.result = "panic"
                  /\ lastOp.published = <<>>
                  /\ wallpapers = before
            /\ (i >= Len(before) /\ (op.kind = "MoveDown"
                                        \/ (op.kind = "MoveUp" /\ i = 0))) =>
                  /\ lastOp.result = "returned"
                  /\ wallpapers = before

\* Two Remove entries were dispatched from the same display list; the second
\* to run removed another wallpaper than the one the user saw at its
\* position, and that one is still in the list.
Wit_C30 ==
    /\ threads["perform"].args # <<>>
    /\ lastOp.kind = "Remove"
    /\ lastOp.index < Len(lastOp.before)
    /\ Len(lastOp.before) < Len(ReorderList)
    /\ lastOp.before[lastOp.index + 1].uuid # threads["perform"].args[3]
    /\ threads["perform"].args[3] \in Ids(wallpapers)

\* A dispatched position was behind the end of the list when its task ran.
Wit_C30_OutOfRange ==
    /\ threads["perform"].args # <<>>
    /\ lastOp.kind \in UpdateKinds
    /\ lastOp.index >= Len(lastOp.before)
    /\ lastOp.result = "panic"

\* The latest operation was an update_wallpaper for a position behind the
\* end of the list it found.
LastOutOfRange ==
    /\ lastOp.kind \in UpdateKinds
    /\ lastOp.index >= Len(lastOp.before)

\* C31 as stated: update_wallpaper with index >= len does not return whatever
\* the operation is, leaves the list as it was and publishes nothing.
Inv_C31_OutOfRangeAlwaysFatal ==
    LastOutOfRange =>
        /\ crashed
        /\ wallpapers = lastOp.before
        /\ lastOp.published = <<>>

\* C31: update_wallpaper with index >= len leaves the list as it was; Remove,
\* SetFitting and MoveUp with index > 0 panic before the notify, so the call
\* does not return and no WallpapersUpdated is published; MoveDown, and
\* MoveUp with index 0 on the empty list, fail their guard, fall to the
\* default arm and return after publishing one WallpapersUpdated.
Inv_C31_OutOfRangeFatalButMoves ==
    LastOutOfRange =>
        /\ wallpapers = lastOp.before
        /\ (lastOp.kind \in {"Remove", "SetFitting"}
              \/ (lastOp.kind = "MoveUp" /\ lastOp.index > 0)) =>
                 /\ crashed
                 /\ lastOp.published = <<>>
                 /\ lastCalls = <<>>
        /\ (lastOp.kind = "MoveDown"
              \/ (lastOp.kind = "MoveUp" /\ lastOp.index = 0)) =>
                 /\ ~crashed
                 /\ Len(lastOp.published) = 1
                 /\ lastOp.published[1].msg = "WallpapersUpdated"
                 /\ DeliveredOnce(lastCalls, "WallpapersUpdated")

\* A Remove behind the end of a list of two ended the process.
Wit_C31 ==
    /\ LastOutOfRange
    /\ lastOp.kind = "Remove"
    /\ Len(lastOp.before) = 2
    /\ crashed

\* A MoveDown behind the end of a list of two returned.
Wit_C31_MoveDown ==
    /\ LastOutOfRange
    /\ lastOp.kind = "MoveDown"
    /\ Len(lastOp.before) = 2
    /\ ~crashed

\* The notifying thread stands at a lock() call inside a closure, for a
\* mutex it took itself before it called the closure.
ReentrantWait ==
    /\ At("monitor_info", "callback_lock")
    /\ threads["monitor_info"].args[4] \in Reentrant

\* C32: a closure that, called inside notify, locks the Application that is
\* notifying, or calls subscribe or notify on a manager that owns a mutex,
\* waits for a mutex its own thread holds; from then on the thread never
\* moves and never drops its guards, whatever the other threads do, and
\* nothing reports it: the process is not ended and notify has not returned.
Prop_C32_ReentrantCallbackDeadlocks ==
    /\ [](ReentrantWait =>
            /\ locks[CallbackWants[threads["monitor_info"].args[4]]] = "monitor_info"
            /\ locks["model"] = "monitor_info"
            /\ ~ENABLED callback_lock
            /\ ~crashed)
    /\ [][ReentrantWait =>
            /\ ReentrantWait'
            /\ threads'["monitor_info"] = threads["monitor_info"]
            /\ locks' = locks
            /\ registry' = registry]_vars

\* The second of two live subscribers locked the Application in its closure:
\* the first was called, the second never returns.
Wit_C32 ==
    /\ ReentrantWait
    /\ threads["monitor_info"].args[4] = "lock_model"
    /\ threads["monitor_info"].args[2] = 2
    /\ Len(lastCalls) = 2

\* A closure called subscribe on the manager that was notifying it.
Wit_C32_Subscribe ==
    /\ ReentrantWait
    /\ threads["monitor_info"].args[4] = "subscribe"

\* The smallest low coordinate and the largest high coordinate of the
\* preview rects on one axis.
LowestLow(axis) ==
    CHOOSE v \in {vmMonitors[k].preview_rect[axis] : k \in 1..Len(vmMonitors)} :
        \A k \in 1..Len(vmMonitors) : F32Le(v, vmMonitors[k].preview_rect[axis])

HighestHigh(axis) ==
    CHOOSE v \in {vmMonitors[k].preview_rect[axis + 2] : k \in 1..Len(vmMonitors)} :
        \A k \in 1..Len(vmMonitors) : F32Le(vmMonitors[k].preview_rect[axis + 2], v)

\* a + b = 1 as real numbers.
SumsToOne(a, b) ==
    LET k == MaxOf(a.e, b.e) IN Scaled(a, k) + Scaled(b, k) = Pow2(k)

PreviewOf(ms) ==
    /\ Len(vmMonitors) = Len(ms)
    /\ \A k \in 1..Len(ms) :
          /\ vmMonitors[k].name = ms[k].id
          /\ vmMonitors[k].position = ms[k].position
          /\ vmMonitors[k].size = ms[k].size
          /\ vmMonitors[k].preview_rect =
                MonitorCache_new(ms[k], WholeBox(ms).whole_topleft,
                                 WholeBox(ms).whole_offset,
                                 WholeBox(ms).divider).preview_rect

\* A step of the task ApplicationViewModel::update_monitors.
RecomputeStep ==
    tasks'["vm_update_monitors"] = tasks["vm_update_monitors"] - 1

\* C34: the preview list is recomputed in full. Once every update_monitors
\* task spawned by the set_monitors calls so far has run, the preview list
\* is the layout of the latest monitor list: one rect per monitor, in the
\* same order, nothing left from earlier lists; and a recomputation that
\* finds the preview list already computed from the monitor list leaves it
\* identical.
Prop_C34_PreviewRecomputedInFull ==
    /\ [](tasks["vm_update_monitors"] = 0 => PreviewOf(monitors))
    /\ [][(RecomputeStep /\ PreviewOf(monitors)) => vmMonitors' = vmMonitors]_vars

\* The user had selected the second of two monitors; the list was then
\* replaced by a list of one and the recomputation has run: one rect is left.
Wit_C34 ==
    /\ used.sets >= 2
    /\ tasks["vm_update_monitors"] = 0
    /\ selected = Some(1)
    /\ monitors = <<Monitor1>>
    /\ PreviewOf(monitors)

\* The display list has one record per wallpaper of list ws, in the order of
\* ws, with the id, the filename and the fitting of its wallpaper.
DisplayOf(ws) ==
    /\ Len(vmWallpapers) = Len(ws)
    /\ \A k \in 1..Len(ws) :
          /\ vmWallpapers[k].uuid = ws[k].uuid
          /\ vmWallpapers[k].filename = ws[k].filename
          /\ vmWallpapers[k].fitting = ws[k].fitting

\* A step in which an action task ran update_wallpaper.
MutationStep == Len(queue'["perform"]) < Len(queue["perform"])

\* C35: the display list follows the model. A mutation that returns
\* publishes WallpapersUpdated once and that starts exactly one
\* update_wallpapers task (one that panics publishes nothing and starts
\* none); in whatever order the tasks run, once none is pending the display
\* list has one record per wallpaper of the model, in the model's order,
\* with the same id, filename and fitting.
Prop_C35_DisplayListFollowsModel ==
    /\ [](tasks["vm_update_wallpapers"] = 0 => DisplayOf(wallpapers))
    /\ [][MutationStep =>
            /\ tasks'["vm_update_wallpapers"] =
                  tasks["vm_update_wallpapers"] + Len(lastOp'.published)
            /\ lastOp'.result = "returned" =>
                  /\ Len(lastOp'.published) = 1
                  /\ lastOp'.published[1].msg = "WallpapersUpdated"]_vars

\* Two context-menu operations have run, one removed a wallpaper and one
\* set a fitting, both rebuilds have run and the display list shows the two
\* wallpapers left.
Wit_C35 ==
    /\ dispatched >= 2
    /\ queue["perform"] = <<>>
    /\ tasks["vm_update_wallpapers"] = 0
    /\ Len(wallpapers) = 2
    /\ \E k \in 1..2 : wallpapers[k].fitting # DefaultFitting
    /\ DisplayOf(wallpapers)

\* The file the wallpaper with id u was added with.
FileOf(u) == (CHOOSE w \in Elements(ReorderList) : w.uuid = u).filename

\* C36: under any interleaving of passes and mutations, every cache entry
\* kept under a wallpaper id was decoded from the file of the wallpaper with
\* that id, and no pass indexes the display list out of range when it
\* stores a thumbnail.
Inv_C36_ThumbnailUnderOwnId ==
    /\ \A e \in cache : e.src = FileOf(e.uuid)
    /\ lastFinish.done => lastFinish.synced

\* C37: in every state in which a frame can start (the view and viewmodel
\* mutexes are free), the selected monitor index is none or a position of
\* the monitor preview list.
Inv_C37_SelectionInRange ==
    (~crashed /\ Free("view") /\ Free("viewmodel")) =>
        (selected = None \/ selected[1] < Len(vmMonitors))

\* C38: the UI thread and the worker tasks never deadlock on the view, the
\* viewmodel and the model mutex. A thread about to lock a mutex holds only
\* mutexes that come before it in the order view, viewmodel, model, and no
\* set of threads waits in a cycle, each for a mutex another of them holds.
LockOrder == <<"view", "viewmodel", "model">>

Rank(x) == CHOOSE i \in 1..Len(LockOrder) : LockOrder[i] = x

Workers == Threads \cup TaskKinds

Wants(t) ==
    IF t = "ui" /\ At(t, "lock_viewmodel") THEN "viewmodel"
    ELSE IF t \in ActionKinds /\ At(t, "lock_model") THEN "model"
    ELSE IF t \in TaskKinds /\ At(t, "lock_second") THEN LockOrderOf(t)[2]
    ELSE "none"

WaitCycle(S) ==
    /\ S # {}
    /\ \A t \in S : Wants(t) # "none" /\ locks[Wants(t)] \in S

Inv_C38_LockOrderNoDeadlock ==
    /\ \A t \in Workers : \A i \in 1..Len(LockOrder) :
          (Wants(t) # "none" /\ locks[LockOrder[i]] = t) => i < Rank(Wants(t))
    /\ \A t \in Workers :
          (locks["model"] = t /\ t \notin {"monitor_info"}) => locks["viewmodel"] = t
    /\ \A S \in SUBSET Workers : ~WaitCycle(S)

Wit_C38 ==
    /\ At("ui", "lock_viewmodel")
    /\ locks["view"] = "ui"
    /\ \E k \in Workers \ {"ui"} :
          /\ locks["viewmodel"] = k
          /\ Wants(k) = "model"
          /\ locks["model"] \in Workers \ {k}

\* C39: ComLibrary counts its live handles per thread. CoInitializeEx is
\* called exactly by the new that takes the live handles of its thread from 0
\* to 1, CoUninitialize exactly by the drop that takes them from 1 to 0, COM
\* is initialized on a thread whenever one of its handles is alive, and the
\* counter never goes below 0.
Inv_C39_ComInitializedWhileAlive ==
    \A t \in ComThreads :
        /\ com[t].last.op = "new" => (com[t].last.called <=> com[t].last.before = 0)
        /\ com[t].last.op = "drop" => (com[t].last.called <=> com[t].last.before = 1)
        /\ com[t].live >= 1 => com[t].initialized >= 1
        /\ com[t].count >= 0

\* The first ComLibrary of a thread is alive and CoInitializeEx was not called.
Wit_C39_FirstHandleUninitialized ==
    \E t \in ComThreads :
        /\ com[t].last = [op |-> "new", before |-> 0, called |-> FALSE]
        /\ com[t].live = 1
        /\ com[t].initialized = 0

\* The last ComLibrary of a thread was dropped and COM stays initialized.
Wit_C39_LastDropKeepsCom ==
    \E t \in ComThreads :
        /\ com[t].last = [op |-> "drop", before |-> 1, called |-> FALSE]
        /\ com[t].live = 0
        /\ com[t].initialized >= 1

\* The counter of a thread never drops below its live handles.
Inv_C39_CounterCoversHandles ==
    \A t \in ComThreads : com[t].count >= com[t].live /\ com[t].live >= 0

====
